---------------------------- MODULE Spec2Model ----------------------------
(***************************************************************************)
(* SmartAssist: the natural-language command interpretation pipeline.      *)
(*                                                                         *)
(*   - PersonalAssistant (src/unnamed/part_001, lines 1717-4127, the       *)
(*     latest revision of the component): processInput, processWithAI,     *)
(*     processWithKeywords, the form and voice handlers;                   *)
(*   - aiService.js: processWithAI (imported as processWithContextAI),     *)
(*     gatherContext, callAnthropic / callOpenAI, parseAIResponse;         *)
(*   - timeParser.js: parseTimeExpression, extractReminderContent.         *)
(*                                                                         *)
(* Strings are TLA+ strings and are handled character by character         *)
(* (Len, SubSeq, \o).  The JavaScript event loop is modelled by its        *)
(* run-to-completion rule: a step that follows an await on an already      *)
(* settled promise (a microtask) runs before any user event, timer or      *)
(* network completion.                                                     *)
(***************************************************************************)
EXTENDS Integers, Sequences, FiniteSets, TLC

(***************************************************************************)
(* Bounds of the model.                                                    *)
(***************************************************************************)
\* the utterances submitted in a run (accepted, or waiting in a timer)
MaxUtterances == 2

\* the number of calls of startRecording
MaxStarts == 4

(***************************************************************************)
(* JavaScript string primitives.                                           *)
(***************************************************************************)
CharAt(s, i) == IF i >= 1 /\ i <= Len(s) THEN SubSeq(s, i, i) ELSE ""

\* s.substring(i-1, j) with 1-based inclusive bounds, empty when j < i
Slice(s, i, j) == IF j < i THEN "" ELSE SubSeq(s, i, j)

StartsAt(s, i, w) ==
    /\ i >= 1
    /\ i + Len(w) - 1 <= Len(s)
    /\ Slice(s, i, i + Len(w) - 1) = w

\* String.prototype.includes
Includes(s, w) == \E i \in 1..(Len(s) + 1) : StartsAt(s, i, w)

\* String.prototype.startsWith
StartsWith(s, w) == StartsAt(s, 1, w)

UpperChars == "ABCDEFGHIJKLMNOPQRSTUVWXYZ"
LowerChars == "abcdefghijklmnopqrstuvwxyz"

LowerChar(c) ==
    IF \E k \in 1..26 : CharAt(UpperChars, k) = c
    THEN CharAt(LowerChars, CHOOSE k \in 1..26 : CharAt(UpperChars, k) = c)
    ELSE c

RECURSIVE LowerFrom(_, _)
LowerFrom(s, i) ==
    IF i > Len(s) THEN "" ELSE LowerChar(CharAt(s, i)) \o LowerFrom(s, i + 1)

\* String.prototype.toLowerCase
toLowerCase(s) == LowerFrom(s, 1)

\* the flag i of a regular expression: w, in lower case, occurs in s at i
\* whatever the case of s
StartsAtI(s, i, w) ==
    /\ i >= 1
    /\ i + Len(w) - 1 <= Len(s)
    /\ toLowerCase(Slice(s, i, i + Len(w) - 1)) = w

\* the regular-expression classes \s and \d
IsSpace(c) == c = " "
IsDigit(c) == c \in {"0", "1", "2", "3", "4", "5", "6", "7", "8", "9"}
IsLetter(c) == c # "" /\ \E k \in 1..26 : CharAt(LowerChars, k) = LowerChar(c)

\* first index >= i whose character is not white space (Len(s)+1 if none): \s*
RECURSIVE SkipSpaces(_, _)
SkipSpaces(s, i) ==
    IF i <= Len(s) /\ IsSpace(CharAt(s, i)) THEN SkipSpaces(s, i + 1) ELSE i

\* first index >= i whose character is not a digit: \d*
RECURSIVE SkipDigits(_, _)
SkipDigits(s, i) ==
    IF i <= Len(s) /\ IsDigit(CharAt(s, i)) THEN SkipDigits(s, i + 1) ELSE i

RECURSIVE TrimEndIndex(_, _)
TrimEndIndex(s, j) ==
    IF j >= 1 /\ IsSpace(CharAt(s, j)) THEN TrimEndIndex(s, j - 1) ELSE j

\* String.prototype.trim
trim(s) == Slice(s, SkipSpaces(s, 1), TrimEndIndex(s, Len(s)))

\* index of the first alternative of the sequence alts that starts s at i
\* (case-insensitively), 0 if none: the regular expression (a|b|c) at i
FirstAlt(s, i, alts) ==
    LET hits == {k \in 1..Len(alts) : StartsAtI(s, i, alts[k])}
    IN  IF hits = {} THEN 0 ELSE CHOOSE k \in hits : \A m \in hits : k <= m

Min(S) == CHOOSE x \in S : \A y \in S : x <= y

Max(S) == CHOOSE x \in S : \A y \in S : x >= y


(***************************************************************************)
(* The plugin registry and the AI action map.                              *)
(***************************************************************************)
\* Object.entries(plugins): the registry in declaration order
plugins ==
    << "notes", "reminders", "tasks", "lists", "search",
       "calendar", "email", "text", "recording", "contacts" >>

PluginKeys == {plugins[k] : k \in 1..Len(plugins)}

keywords(key) ==
    CASE key = "notes" ->
           {"note", "notes", "remember", "write down", "save", "jot",
            "delete note", "remove note", "clear notes"}
      [] key = "reminders" ->
           {"remind", "reminder", "alert", "notify", "don't forget"}
      [] key = "tasks" ->
           {"task", "todo", "to-do", "to do", "add task", "create task"}
      [] key = "lists" ->
           {"list", "shopping", "groceries", "shopping list", "grocery list",
            "packing list", "add to list", "buy"}
      [] key = "search" ->
           {"search", "look up", "find", "google", "what is", "who is",
            "research", "tell me about", "what's", "weather", "how do",
            "how to", "where is", "near me", "nearby"}
      [] key = "calendar" ->
           {"calendar", "schedule", "event", "meeting", "appointment", "busy",
            "free", "today", "add meeting", "add appointment", "add event"}
      [] key = "email" ->
           {"email", "mail", "send", "outlook", "inbox"}
      [] key = "text" ->
           {"text", "sms", "message", "send text"}
      [] key = "recording" ->
           {"record", "recording", "meeting", "start recording",
            "stop recording", "record meeting"}
      [] key = "contacts" ->
           {"contact", "contacts", "add contact", "phone number", "phone book",
            "address book"}
      [] OTHER -> {}

\* the plugin and plugin action each AI action name is mapped to
actionMap ==
    [a \in {"note_create", "note_list", "note_delete", "note_clear",
            "reminder_create", "reminder_list", "task_create", "task_list",
            "list_add", "list_show", "list_create", "search", "text_send",
            "calendar_list", "calendar_create", "calendar_today",
            "email_check", "recording_start", "contact_add", "contact_list",
            "contact_find", "contact_delete"} |->
       CASE a = "note_create"     -> [plugin |-> "notes", action |-> "create"]
         [] a = "note_list"       -> [plugin |-> "notes", action |-> "list"]
         [] a = "note_delete"     -> [plugin |-> "notes", action |-> "delete"]
         [] a = "note_clear"      -> [plugin |-> "notes", action |-> "clear"]
         [] a = "reminder_create" -> [plugin |-> "reminders", action |-> "create"]
         [] a = "reminder_list"   -> [plugin |-> "reminders", action |-> "list"]
         [] a = "task_create"     -> [plugin |-> "tasks", action |-> "create"]
         [] a = "task_list"       -> [plugin |-> "tasks", action |-> "list"]
         [] a = "list_add"        -> [plugin |-> "lists", action |-> "add"]
         [] a = "list_show"       -> [plugin |-> "lists", action |-> "show"]
         [] a = "list_create"     -> [plugin |-> "lists", action |-> "show"]
         [] a = "search"          -> [plugin |-> "search", action |-> "search"]
         [] a = "text_send"       -> [plugin |-> "text", action |-> "send"]
         [] a = "calendar_list"   -> [plugin |-> "calendar", action |-> "list"]
         [] a = "calendar_create" -> [plugin |-> "calendar", action |-> "create"]
         [] a = "calendar_today"  -> [plugin |-> "calendar", action |-> "today"]
         [] a = "email_check"     -> [plugin |-> "email", action |-> "inbox"]
         [] a = "recording_start" -> [plugin |-> "recording", action |-> "start"]
         [] a = "contact_add"     -> [plugin |-> "contacts", action |-> "add"]
         [] a = "contact_list"    -> [plugin |-> "contacts", action |-> "list"]
         [] a = "contact_find"    -> [plugin |-> "contacts", action |-> "find"]
         [] a = "contact_delete"  -> [plugin |-> "contacts", action |-> "delete"]]

(***************************************************************************)
(* processWithKeywords: the keyword cascade.                               *)
(*                                                                         *)
(* A branch's regular expression decides only whether the branch is        *)
(* taken, so each is modelled by the condition under which it has a        *)
(* match.  The utterances of the model hold no line break and no '@'.      *)
(***************************************************************************)
\* end index of the first alternative of alts found at i, 0 if none
AltEnd(s, i, alts) ==
    LET k == FirstAlt(s, i, alts)
    IN  IF k = 0 THEN 0 ELSE i + Len(alts[k]) - 1

\* the (end indices of the) occurrences anywhere in s of one of the words
WordEnds(s, alts) ==
    UNION {{i + Len(alts[k]) - 1 :
              k \in {m \in 1..Len(alts) : StartsAtI(s, i, alts[m])}} :
           i \in 1..Len(s)}

AllSpaces(s, i, j) == \A m \in i..j : IsSpace(CharAt(s, m))

\* userInput.replace(/^(alt1|alt2|..)[:\s]*/i, '').trim()
RECURSIVE SkipColonSpaces(_, _)
SkipColonSpaces(s, i) ==
    IF i <= Len(s) /\ CharAt(s, i) \in {":", " "}
    THEN SkipColonSpaces(s, i + 1) ELSE i

StripPrefix(s, alts) ==
    LET e == AltEnd(s, 1, alts)
    IN  IF e = 0 THEN trim(s) ELSE trim(Slice(s, SkipColonSpaces(s, e + 1), Len(s)))

\* /(?:make|create|start)\s+(?:a\s+)?(?:new\s+)?list\s+(?:called|named)\s+(.+)/i
ListCreateCalled(s) ==
    \E v \in WordEnds(s, <<"make", "create", "start">>) :
       /\ IsSpace(CharAt(s, v + 1))
       /\ LET a == SkipSpaces(s, v + 1)
              b == IF StartsAtI(s, a, "a") /\ IsSpace(CharAt(s, a + 1))
                   THEN SkipSpaces(s, a + 1) ELSE a
              c == IF StartsAtI(s, b, "new") /\ IsSpace(CharAt(s, b + 3))
                   THEN SkipSpaces(s, b + 3) ELSE b
              d == c + 4
              e == SkipSpaces(s, d)
              f == AltEnd(s, e, <<"called", "named">>)
          IN  /\ StartsAtI(s, c, "list")
              /\ IsSpace(CharAt(s, d))
              /\ f # 0
              /\ IsSpace(CharAt(s, f + 1))
              /\ f + 2 <= Len(s)

\* /(?:make|create|start)\s+(?:a\s+)?(?:new\s+)?(.+?)\s+list$/i
ListCreateNamed(s) ==
    /\ StartsAtI(s, Len(s) - 3, "list")
    /\ IsSpace(CharAt(s, Len(s) - 4))
    /\ \E v \in WordEnds(s, <<"make", "create", "start">>) :
          IsSpace(CharAt(s, v + 1)) /\ v + 2 <= Len(s) - 5

\* /(?:add|put)\s+(.+?)\s+(?:to|on)\s+(?:my\s+)?(.+?)\s*list$/i
AddToListMatch(s) ==
    /\ StartsAtI(s, Len(s) - 3, "list")
    /\ \E v \in WordEnds(s, <<"add", "put">>) :
          /\ IsSpace(CharAt(s, v + 1))
          /\ \E t \in (v + 4)..(Len(s) - 7) :
                /\ IsSpace(CharAt(s, t - 1))
                /\ AltEnd(s, t, <<"to", "on">>) # 0
                /\ IsSpace(CharAt(s, t + 2))

\* /(?:add|put|buy)\s+(.+)$/i
SimpleAddMatch(s) ==
    \E v \in WordEnds(s, <<"add", "put", "buy">>) :
       IsSpace(CharAt(s, v + 1)) /\ v + 2 <= Len(s)

IsPhoneChar(c) == IsDigit(c) \/ c \in {"-", "+", "(", ")", " "}

\* /^(?:text|sms|message)\s+([\d\-\+\(\)\s]+)\s+(.+)$/i
TextNumberMatch(s) ==
    LET v == AltEnd(s, 1, <<"text", "sms", "message">>)
    IN  /\ v # 0
        /\ IsSpace(CharAt(s, v + 1))
        /\ \E y \in (v + 3)..(Len(s) - 1) :
              /\ IsSpace(CharAt(s, y))
              /\ \A m \in (v + 1)..y : IsPhoneChar(CharAt(s, m))

\* /^(?:text|sms|message)\s+([a-zA-Z][a-zA-Z\s]*?)\s+(.+)$/i
TextContactMatch(s) ==
    LET v == AltEnd(s, 1, <<"text", "sms", "message">>)
        x == SkipSpaces(s, v + 1)
    IN  /\ v # 0
        /\ IsSpace(CharAt(s, v + 1))
        /\ IsLetter(CharAt(s, x))
        /\ \E y \in (x + 1)..(Len(s) - 1) :
              /\ IsSpace(CharAt(s, y))
              /\ \A m \in x..y : IsLetter(CharAt(s, m)) \/ IsSpace(CharAt(s, m))

\* /(?:find|search|who is|look up)\s+(?:contact\s+)?(.+)/i
ContactFindMatch(s) ==
    \E v \in WordEnds(s, <<"find", "search", "who is", "look up">>) :
       IsSpace(CharAt(s, v + 1)) /\ v + 2 <= Len(s)

\* the index of "contact" in the leftmost match of
\* /(?:verb1|verb2|..)\s+contact\s+(.+)/i, 0 if there is no match
ContactVerbMatch(s, verbs) ==
    LET starts == {SkipSpaces(s, v + 1) : v \in
                     {w \in WordEnds(s, verbs) : IsSpace(CharAt(s, w + 1))}}
        ok == {c \in starts : /\ StartsAtI(s, c, "contact")
                              /\ IsSpace(CharAt(s, c + 7))
                              /\ c + 8 <= Len(s)}
    IN  IF ok = {} THEN 0 ELSE Min(ok)

RECURSIVE SkipPhoneChars(_, _)
SkipPhoneChars(s, i) ==
    IF i <= Len(s) /\ IsPhoneChar(CharAt(s, i)) THEN SkipPhoneChars(s, i + 1) ELSE i

\* .replace(/(?:phone|number|cell|mobile)\s*[\d\-\+\(\)\s]+/gi, '')
RECURSIVE RemovePhones(_, _)
RemovePhones(s, i) ==
    IF i > Len(s) THEN ""
    ELSE LET e == AltEnd(s, i, <<"phone", "number", "cell", "mobile">>)
         IN  IF e # 0 /\ IsPhoneChar(CharAt(s, e + 1))
             THEN RemovePhones(s, SkipPhoneChars(s, e + 1))
             ELSE CharAt(s, i) \o RemovePhones(s, i + 1)

IsWordChar(c) == IsLetter(c) \/ IsDigit(c) \/ c = "_"

RECURSIVE SkipWordChars(_, _)
SkipWordChars(s, i) ==
    IF i <= Len(s) /\ IsWordChar(CharAt(s, i)) THEN SkipWordChars(s, i + 1) ELSE i

\* .replace(/nickname\s+\w+/gi, '')
RECURSIVE RemoveNicknames(_, _)
RemoveNicknames(s, i) ==
    IF i > Len(s) THEN ""
    ELSE LET w == SkipSpaces(s, i + 8)
         IN  IF /\ StartsAtI(s, i, "nickname")
                /\ IsSpace(CharAt(s, i + 8))
                /\ IsWordChar(CharAt(s, w))
             THEN RemoveNicknames(s, SkipWordChars(s, w))
             ELSE CharAt(s, i) \o RemoveNicknames(s, i + 1)

\* the name of "add contact ..": contactInfo with the phone, e-mail and
\* nickname parts removed (the e-mail pattern needs an '@': no match here)
ContactName(s) ==
    LET c == ContactVerbMatch(s, <<"add", "create", "save">>)
        contactInfo == Slice(s, SkipSpaces(s, c + 7), Len(s))
    IN  trim(RemoveNicknames(RemovePhones(contactInfo, 1), 1))

\* What a branch of the cascade does: exec says whether plugin.execute is
\* called, action is the action parameter it is given ("undefined" if none),
\* render is how the reply is built ("message": the result's message;
\* "list": a bulleted list, or a fixed text when the list is empty; "fixed":
\* a fixed text of the matcher), tag is the reply's action field.
Call(key, action, render) ==
    [plugin |-> key, exec |-> TRUE, action |-> action, render |-> render, tag |-> key]

Reply(key, tag) ==
    [plugin |-> key, exec |-> FALSE, action |-> "undefined", render |-> "fixed", tag |-> tag]

AnyIncludes(s, words) == \E w \in words : Includes(s, w)

KeywordBranch(key, userInput) ==
    LET lowerInput == toLowerCase(userInput)
    IN
    CASE key = "notes" ->
           IF AnyIncludes(lowerInput, {"show", "list", "what are my"})
           THEN Call(key, "list", "list")
           ELSE IF AnyIncludes(lowerInput, {"clear all notes", "delete all notes"})
           THEN Call(key, "clear", "message")
           ELSE IF AnyIncludes(lowerInput, {"delete", "remove"})
           THEN Call(key, "delete", "message")
           ELSE IF StripPrefix(userInput,
                       <<"note", "remember", "write down", "save", "jot">>) # ""
           THEN Call(key, "create", "message")
           ELSE Reply(key, "undefined")
      [] key = "reminders" ->
           IF AnyIncludes(lowerInput, {"show", "list", "my reminder"})
           THEN Call(key, "list", "list")
           ELSE IF StripPrefix(userInput,
                       <<"remind", "reminder", "remind me", "don't forget">>) # ""
           THEN Call(key, "create", "message")
           ELSE Reply(key, "undefined")
      [] key = "tasks" ->
           IF AnyIncludes(lowerInput, {"show", "list", "my task", "what"})
           THEN Call(key, "list", "list")
           ELSE IF StripPrefix(userInput,
                       <<"task", "todo", "to-do", "to do", "add task", "create task">>) # ""
           THEN Call(key, "create", "message")
           ELSE Reply(key, "undefined")
      [] key = "lists" ->
           IF ListCreateCalled(userInput) \/ ListCreateNamed(userInput)
           THEN Reply(key, key)
           ELSE IF AnyIncludes(lowerInput, {"show", "what's on", "whats on"})
           THEN Call(key, "show", "list")
           ELSE IF AddToListMatch(userInput) \/ SimpleAddMatch(userInput)
           THEN Call(key, "add", "message")
           ELSE Reply(key, "undefined")
      [] key = "recording" ->
           IF AnyIncludes(lowerInput, {"show", "list", "previous", "history"})
           THEN Call(key, "list", "message")
           ELSE Call(key, "start", "message")
      [] key = "search" ->
           IF StripPrefix(userInput,
                  <<"search", "look up", "find", "google", "what is", "who is",
                    "research", "tell me about">>) # ""
           THEN Call(key, "undefined", "message")
           ELSE Reply(key, "undefined")
      [] key = "text" ->
           IF AnyIncludes(lowerInput, {"history", "show text", "text history"})
           THEN Call(key, "history", "message")
           ELSE IF TextNumberMatch(userInput) \/ TextContactMatch(userInput)
           THEN Call(key, "send", "message")
           ELSE Reply(key, "undefined")
      [] key = "contacts" ->
           IF AnyIncludes(lowerInput, {"show", "list", "my contact"})
           THEN Call(key, "list", "message")
           ELSE IF ContactFindMatch(userInput)
           THEN Call(key, "find", "message")
           ELSE IF ContactVerbMatch(userInput, <<"delete", "remove">>) # 0
           THEN Call(key, "delete", "message")
           ELSE IF ContactVerbMatch(userInput, <<"add", "create", "save">>) # 0
           THEN IF ContactName(userInput) = ""
                THEN Reply(key, "undefined")
                ELSE Call(key, "add", "message")
           ELSE Call(key, "undefined", "message")
      [] key = "calendar" ->
           IF AnyIncludes(lowerInput, {"add", "schedule", "create", "set up"})
           THEN Call(key, "create", "message")
           ELSE IF AnyIncludes(lowerInput, {"today", "today's"})
           THEN Call(key, "today", "message")
           ELSE Call(key, "list", "message")
      [] key = "email" ->
           IF AnyIncludes(lowerInput, {"check", "inbox", "read"})
           THEN Call(key, "inbox", "message")
           ELSE Call(key, "undefined", "message")
      [] OTHER -> Call(key, "undefined", "message")

\* the conversational tier reached when no active plugin's keyword occurs
ConversationTier(userInput, active) ==
    LET lowerInput2 == toLowerCase(userInput)
    IN  IF AnyIncludes(lowerInput2, {"help", "what can you do"})
        THEN Reply("none", "undefined")
        ELSE IF AnyIncludes(lowerInput2, {"hello", "hi", "hey"})
        THEN Reply("none", "undefined")
        ELSE IF Includes(lowerInput2, "thank")
        THEN Reply("none", "undefined")
        ELSE IF \/ Includes(lowerInput2, "?")
                \/ \E w \in {"what's", "what is", "who is", "how do", "where is"} :
                      StartsWith(lowerInput2, w)
                \/ AnyIncludes(lowerInput2, {"near me", "nearby"})
        THEN IF "search" \in active /\ "search" \in PluginKeys
             THEN Call("search", "undefined", "message")
             ELSE Reply("none", "suggestion")
        ELSE Reply("none", "undefined")

\* the plugin of the first registry entry that is active and has a keyword
\* occurring in the lower-cased input; 0 if there is none
FirstKeywordHit_Last(userInput, active) ==
    LET lowerInput == toLowerCase(userInput)
        hits == {k \in 1..Len(plugins) :
                   /\ plugins[k] \in active
                   /\ AnyIncludes(lowerInput, keywords(plugins[k]))}
    IN  IF hits = {} THEN 0 ELSE Max(hits)

FirstKeywordHit(userInput, active) ==
    LET lowerInput == toLowerCase(userInput)
        hits == {k \in 1..Len(plugins) :
                   /\ plugins[k] \in active
                   /\ AnyIncludes(lowerInput, keywords(plugins[k]))}
    IN  IF hits = {} THEN 0 ELSE Min(hits)

processWithKeywords(userInput, active) ==
    LET k == FirstKeywordHit(userInput, active)
    IN  IF k # 0 THEN KeywordBranch(plugins[k], userInput)
        ELSE ConversationTier(userInput, active)

(***************************************************************************)
(* aiService.js: the provider's reply and parseAIResponse.                 *)
(*                                                                         *)
(* A reply text is a sequence of tokens: "txt" is a run of prose, "{" "}"  *)
(* and "," are themselves, and a member of PairTokens is one               *)
(* "key": value pair: "message" is "message": "..", "params" is            *)
(* "params": {..} and an action name a is "action": "a".                   *)
(***************************************************************************)
AIActions == (DOMAIN actionMap) \cup {"conversation", "fly_to_moon"}

PairTokens == {"message", "params"} \cup AIActions

IndexSet(seq, tok) == {i \in 1..Len(seq) : seq[i] = tok}

\* responseText.match(/\{[\s\S]*\}/): from the first "{" to the last "}"
JsonMatch(responseText) ==
    LET opens == IndexSet(responseText, "{")
        closes == IndexSet(responseText, "}")
    IN  IF opens # {} /\ \E c \in closes : c > Min(opens)
        THEN SubSeq(responseText, Min(opens), Max(closes))
        ELSE <<>>

\* whether JSON.parse accepts the text: { pair , pair , .. } or { }
JsonValid(text) ==
    /\ Len(text) >= 2
    /\ text[1] = "{"
    /\ text[Len(text)] = "}"
    /\ LET inner == SubSeq(text, 2, Len(text) - 1)
       IN  \/ inner = <<>>
           \/ /\ Len(inner) % 2 = 1
              /\ \A i \in 1..Len(inner) :
                    IF i % 2 = 1 THEN inner[i] \in PairTokens ELSE inner[i] = ","

\* the object JSON.parse returns (the last of a repeated key wins)
JsonParse(text) ==
    LET acts == {i \in 1..Len(text) : text[i] \in AIActions}
    IN  [message |-> IF IndexSet(text, "message") # {} THEN "ai" ELSE "undefined",
         action  |-> IF acts # {} THEN text[Max(acts)] ELSE "undefined",
         params  |-> IndexSet(text, "params") # {}]

parseAIResponse_Strict(responseText) ==
    LET jsonMatch == JsonMatch(responseText)
    IN  IF jsonMatch # <<>> /\ JsonValid(jsonMatch)
        THEN JsonParse(jsonMatch)
        ELSE [message |-> "undefined", action |-> "undefined", params |-> FALSE]

parseAIResponse(responseText) ==
    LET jsonMatch == JsonMatch(responseText)
    IN  IF jsonMatch # <<>> /\ JsonValid(jsonMatch)
        THEN JsonParse(jsonMatch)
        ELSE \* Fallback: return as conversation
             [message |-> "raw", action |-> "conversation", params |-> TRUE]

\* the reply texts of the model
ProviderTexts ==
    { << "{", "message", ",", "note_create", ",", "params", "}" >>,
      << "txt", "{", "message", ",", "note_list", "}", "txt" >>,
      << "{", "message", ",", "fly_to_moon", "}" >>,
      << "{", "message", ",", "conversation", "}" >>,
      << "{", "note_list", "}" >>,
      << "{", "message", ",", "list_show", "}" >>,
      << "txt" >>,
      << "{", "message", "}", "txt", "{", "note_create", "}" >> }

\* a reply that holds no JSON object JSON.parse accepts
Malformed(responseText) ==
    JsonMatch(responseText) = <<>> \/ ~JsonValid(JsonMatch(responseText))

\* what a provider call can end in, besides a reply text
ProviderFailures == {<<"transport error">>, <<"non-2xx">>, <<"bad body">>}

(***************************************************************************)
(* The state of the PersonalAssistant component.                           *)
(***************************************************************************)
VARIABLES
    env,            \* the configuration: API keys, supabaseClient, onAction,
                    \* and whether the browser has speech recognition
    input,          \* the text field
    transcript,     \* the voice transcript
    isListening,
    isProcessing,
    messages,       \* the chat, a sequence of [role, content]
    activePlugins,
    showRecorder,
    timers,         \* the pending setTimeout callbacks of handleVoiceToggle
    procs,          \* the executions of processInput in progress
    accepted,       \* the number of utterances accepted so far
    args,           \* the arguments of a call of one function by itself
    returned,       \* what the call returned: << >> before it has, << v >> after
    recorder        \* the state and the refs of the hook useMediaRecorder

vars == << env, input, transcript, isListening, isProcessing, messages,
           activePlugins, showRecorder, timers, procs, accepted, args, returned,
           recorder >>

\* the texts the user types and speaks
TypedTexts == {"note to schedule a meeting", "is it raining?"}
SpokenTexts == {"hello"}

\* the plugins the user switches off and on
Togglable == {"notes"}

Environments ==
    { [openaiKey |-> FALSE, anthropicKey |-> FALSE, supabaseClient |-> FALSE,
       onAction |-> FALSE, voiceSupported |-> TRUE],
      [openaiKey |-> FALSE, anthropicKey |-> TRUE, supabaseClient |-> TRUE,
       onAction |-> TRUE, voiceSupported |-> FALSE],
      [openaiKey |-> TRUE, anthropicKey |-> FALSE, supabaseClient |-> FALSE,
       onAction |-> FALSE, voiceSupported |-> FALSE] }

Slots == 1..MaxUtterances

\* the values of the model's texts under trim and processWithKeywords,
\* computed once
AllTexts == TypedTexts \cup SpokenTexts \cup {""}

ActiveSets == {PluginKeys \ off : off \in SUBSET Togglable}

BlankTexts == {t \in AllTexts : trim(t) = ""}

KeywordTable ==
    [t \in AllTexts |-> [a \in ActiveSets |-> processWithKeywords(t, a)]]

NoAI == [state |-> "pending", message |-> "undefined", action |-> "undefined"]
NoCall == [plugin |-> "none", action |-> "undefined", render |-> "fixed", tag |-> "undefined"]
NoPluginResult == [success |-> FALSE, message |-> FALSE, list |-> "none", openRecorder |-> FALSE]
NoResponse == [message |-> "undefined", action |-> "undefined", openRecorder |-> FALSE]

NoArgs == [fn |-> "none", text |-> "", active |-> {}, now |-> 0]

\* useMediaRecorder before the first call: the useState and useRef initial
\* values. mediaRecorder is the state of mediaRecorderRef.current, "null"
\* when there is none; intervals counts the setInterval timers not yet
\* cleared and timerRef tells whether timerRef.current holds one of them;
\* pending counts the calls of startRecording waiting for getUserMedia
IdleRecorder ==
    [isSupported |-> TRUE, isRecording |-> FALSE, isPaused |-> FALSE,
     hasAudio |-> FALSE, error |-> "null", mediaRecorder |-> "null",
     timerRef |-> FALSE, intervals |-> 0, pending |-> 0, starts |-> 0]

IdleProc ==
    [pc |-> "idle", userInput |-> "", spoken |-> FALSE, active |-> {},
     ctxFailed |-> FALSE, requests |-> 0, provider |-> <<>>, ai |-> NoAI,
     kw |-> FALSE, call |-> NoCall, execs |-> <<>>, outcome |-> "none",
     result |-> NoPluginResult, response |-> NoResponse, thrown |-> "none"]

Init ==
    /\ env \in Environments
    /\ input = ""
    /\ transcript = ""
    /\ isListening = FALSE
    /\ isProcessing = FALSE
    /\ messages = <<>>
    /\ activePlugins = PluginKeys
    /\ showRecorder = FALSE
    /\ timers = <<>>
    /\ procs = [p \in Slots |-> IdleProc]
    /\ accepted = 0
    /\ args = NoArgs
    /\ returned = <<>>
    /\ recorder = IdleRecorder

\* the pcs at which an execution of processInput waits for the network or
\* the database; at any other pc its next step is a microtask
Suspended == {"idle", "ctx", "fetch", "exec_ai", "exec_kw"}

EventLoopIdle == \A p \in Slots : procs[p].pc \in Suspended

InFlight == {p \in Slots : procs[p].pc # "idle"}

(***************************************************************************)
(* processInput, up to its first await.                                    *)
(***************************************************************************)
FreeSlot == Min(Slots \ InFlight)

\* processInput(userInput) called from a handler whose closure holds the
\* transcript and the activePlugins of the render it was created in
processInput(userInput, closureTranscript, closureActive) ==
    IF userInput \in BlankTexts
    THEN UNCHANGED << recorder, input, transcript, isProcessing, messages, procs, accepted >>
    ELSE /\ accepted < MaxUtterances
         /\ messages' = Append(messages, [role |-> "user", content |-> "text"])
         /\ input' = ""
         /\ transcript' = ""
         /\ isProcessing' = TRUE
         /\ accepted' = accepted + 1
         /\ procs' = [procs EXCEPT ![FreeSlot] =
                         [IdleProc EXCEPT !.pc = "ai",
                                          !.userInput = userInput,
                                          !.spoken = closureTranscript # "",
                                          !.active = closureActive]]

(***************************************************************************)
(* The user's events.                                                      *)
(***************************************************************************)
\* onChange of the text field
TypeInput ==
    /\ EventLoopIdle
    /\ \E t \in TypedTexts : t # input /\ input' = t
    /\ UNCHANGED << recorder, args, returned, env, transcript, isListening, isProcessing, messages,
                    activePlugins, showRecorder, timers, procs, accepted >>

\* the submit button is disabled while the field is blank or isProcessing
SubmitEnabled == input \notin BlankTexts /\ ~isProcessing

handleSubmit ==
    /\ EventLoopIdle
    /\ SubmitEnabled
    /\ Len(timers) + accepted < MaxUtterances
    /\ processInput(input, transcript, activePlugins)
    /\ UNCHANGED << recorder, args, returned, env, isListening, activePlugins, showRecorder, timers >>

\* the microphone button
handleVoiceToggle ==
    /\ EventLoopIdle
    /\ env.voiceSupported
    /\ IF isListening
       THEN \* stopListening(); setTimeout(.., 500)
            /\ Len(timers) + accepted < MaxUtterances
            /\ isListening' = FALSE
            /\ timers' = Append(timers, [input |-> input, transcript |-> transcript,
                                         active |-> activePlugins])
            /\ UNCHANGED transcript
       ELSE \* startListening()
            /\ transcript' = ""
            /\ isListening' = TRUE
            /\ UNCHANGED timers
    /\ UNCHANGED << recorder, args, returned, env, input, isProcessing, messages, activePlugins,
                    showRecorder, procs, accepted >>

\* recognition.onresult, and the effect that copies the transcript
VoiceResult ==
    /\ EventLoopIdle
    /\ isListening
    /\ \E t \in SpokenTexts :
          /\ transcript' = t
          /\ input' = t
    /\ UNCHANGED << recorder, args, returned, env, isListening, isProcessing, messages, activePlugins,
                    showRecorder, timers, procs, accepted >>

\* recognition.onend / onerror
VoiceEnd ==
    /\ EventLoopIdle
    /\ isListening
    /\ isListening' = FALSE
    /\ UNCHANGED << recorder, args, returned, env, input, transcript, isProcessing, messages,
                    activePlugins, showRecorder, timers, procs, accepted >>

\* the callback of handleVoiceToggle's setTimeout
VoiceTimeout ==
    /\ EventLoopIdle
    /\ timers # <<>>
    /\ LET t == Head(timers)
       IN  IF t.input \notin BlankTexts
           THEN processInput(t.input, t.transcript, t.active)
           ELSE UNCHANGED << recorder, input, transcript, isProcessing, messages, procs, accepted >>
    /\ timers' = Tail(timers)
    /\ UNCHANGED << recorder, args, returned, env, isListening, activePlugins, showRecorder >>

\* a capability button of the settings panel
TogglePlugin ==
    /\ EventLoopIdle
    /\ \E key \in Togglable :
          activePlugins' = IF key \in activePlugins
                           THEN activePlugins \ {key}
                           ELSE activePlugins \cup {key}
    /\ UNCHANGED << recorder, args, returned, env, input, transcript, isListening, isProcessing, messages,
                    showRecorder, timers, procs, accepted >>

(***************************************************************************)
(* aiService.js processWithAI (imported as processWithContextAI).          *)
(***************************************************************************)
NullAI == [state |-> "null", message |-> "undefined", action |-> "undefined"]

HasApiKey == env.openaiKey \/ env.anthropicKey

\* the tests that lead to the keyword matcher: if (!aiResult) return null in
\* the component's processWithAI, then if (!response) in processInput
NeedsFallback_Always(ai) == TRUE

NeedsFallback(ai) == ai.state = "null"

\* from the call to the first await that waits for something
ContextAIStart(p) ==
    /\ procs[p].pc = "ai"
    /\ procs' = [procs EXCEPT ![p] =
          IF ~HasApiKey
          THEN \* No AI available, fall back to keyword matching
               [@ EXCEPT !.ai = NullAI,
                         !.pc = IF NeedsFallback(NullAI) THEN "kw" ELSE "map"]
          ELSE IF ~env.supabaseClient
          THEN \* gatherContext returns {} at once; the provider is called
               [@ EXCEPT !.requests = @ + 1, !.pc = "fetch"]
          ELSE [@ EXCEPT !.pc = "ctx"]]
    /\ UNCHANGED << recorder, args, returned, env, input, transcript, isListening, isProcessing, messages,
                    activePlugins, showRecorder, timers, accepted >>

\* gatherContext's queries end: an error is caught inside gatherContext,
\* which returns the context gathered so far; then the provider is called
gatherContext_Null(p, failed) ==
    IF failed
    THEN [procs[p] EXCEPT !.ctxFailed = TRUE, !.ai = NullAI, !.pc = "kw"]
    ELSE [procs[p] EXCEPT !.requests = @ + 1, !.pc = "fetch"]

gatherContext(p, failed) ==
    [procs[p] EXCEPT !.ctxFailed = failed, !.requests = @ + 1, !.pc = "fetch"]

ContextReturn(p) ==
    /\ EventLoopIdle
    /\ procs[p].pc = "ctx"
    /\ \E failed \in BOOLEAN : procs' = [procs EXCEPT ![p] = gatherContext(p, failed)]
    /\ UNCHANGED << recorder, args, returned, env, input, transcript, isListening, isProcessing, messages,
                    activePlugins, showRecorder, timers, accepted >>

\* what processWithContextAI returns once callAnthropic / callOpenAI has ended
\* in reply, a failure or a reply text
ContextAIResult(reply) ==
    IF reply \in ProviderFailures
    THEN \* Fall back to keyword matching on error
         NullAI
    ELSE LET parsed == parseAIResponse(reply)
         IN  [state |-> "result", message |-> parsed.message, action |-> parsed.action]

ProviderReturn(p) ==
    /\ EventLoopIdle
    /\ procs[p].pc = "fetch"
    /\ \E reply \in ProviderFailures \cup ProviderTexts :
          LET r == ContextAIResult(reply)
          IN  procs' = [procs EXCEPT ![p] =
                 [@ EXCEPT !.provider = reply,
                           !.ai = r,
                           !.pc = IF NeedsFallback(r) THEN "kw" ELSE "map"]]
    /\ UNCHANGED << recorder, args, returned, env, input, transcript, isListening, isProcessing, messages,
                    activePlugins, showRecorder, timers, accepted >>

(***************************************************************************)
(* The component's processWithAI: the dispatch of an AI result.            *)
(***************************************************************************)
\* the reply for a conversation or an unknown action: the AI's own message
AIMessage_Apology(ai) ==
    [message |-> "apology", action |-> "undefined", openRecorder |-> FALSE]

AIMessage(ai) == [message |-> ai.message, action |-> ai.action, openRecorder |-> FALSE]

\* actionMap[aiResult.action], and whether plugins[mapping.plugin] exists
Mapped(action) == action \in DOMAIN actionMap /\ actionMap[action].plugin \in PluginKeys

AIDispatch(p) ==
    /\ procs[p].pc = "map"
    /\ LET ai == procs[p].ai
       IN  procs' = [procs EXCEPT ![p] =
              IF Mapped(ai.action)
              THEN LET mapping == actionMap[ai.action]
                       call == [plugin |-> mapping.plugin, action |-> mapping.action,
                                render |-> "message", tag |-> mapping.plugin]
                   IN  [@ EXCEPT !.call = call,
                                 !.execs = Append(@, [plugin |-> call.plugin,
                                                      action |-> call.action,
                                                      path |-> "ai"]),
                                 !.pc = "exec_ai"]
              ELSE \* Return AI message for conversation or unknown actions
                   [@ EXCEPT !.response = AIMessage(ai), !.pc = "respond"]]
    /\ UNCHANGED << recorder, args, returned, env, input, transcript, isListening, isProcessing, messages,
                    activePlugins, showRecorder, timers, accepted >>

\* the optional fields of an actionMap entry: paramKey, includeRawInput,
\* includeLocation
mappingOptions(action) ==
    [paramKey |-> CASE action \in {"note_create", "reminder_create", "task_create"}
                         -> "content"
                    [] action = "search" -> "query"
                    [] OTHER -> "",
     includeRawInput |-> action = "reminder_create",
     includeLocation |-> action = "search"]

\* { ...target, ...source }: an object is a function from its keys
Spread(target, source) ==
    [k \in DOMAIN target \cup DOMAIN source |->
        IF k \in DOMAIN source THEN source[k] ELSE target[k]]

\* the params processWithAI passes to execute: lines 3036-3055
pluginParams(action, params, supabaseClient, userInput) ==
    LET spread == Spread(("action" :> actionMap[action].action)
                             @@ ("supabase" :> supabaseClient), params)
        keyed == IF /\ mappingOptions(action).paramKey # ""
                    /\ "content" \in DOMAIN params
                    /\ params["content"] # ""
                 THEN Spread(spread,
                             mappingOptions(action).paramKey :> params["content"])
                 ELSE spread
        raw == IF mappingOptions(action).includeRawInput
               THEN Spread(keyed, "rawInput" :> userInput)
               ELSE keyed
    IN  IF mappingOptions(action).includeLocation
        THEN Spread(raw, "userLocation" :> "")
        ELSE raw

\* the results a plugin's execute can return for a call
ListShaped(call) ==
    \/ call.plugin \in {"notes", "reminders", "tasks"} /\ call.action = "list"
    \/ call.plugin = "lists" /\ call.action = "show"

PluginResults(call) ==
    IF ListShaped(call)
    THEN {[success |-> TRUE, message |-> FALSE, list |-> n, openRecorder |-> FALSE] :
             n \in {"empty", "some"}}
    ELSE IF call.plugin = "recording" /\ call.action # "list"
    THEN {[success |-> TRUE, message |-> TRUE, list |-> "none", openRecorder |-> TRUE]}
    ELSE {[success |-> s, message |-> TRUE, list |-> "none", openRecorder |-> FALSE] :
             s \in BOOLEAN}

\* the reply processWithAI builds from the plugin's result
AIReply(ai, call, result) ==
    IF call.action = "list" /\ result.success /\ result.list = "some"
    THEN [message |-> "list", action |-> call.plugin, openRecorder |-> result.openRecorder]
    ELSE [message |-> IF result.message THEN "plugin" ELSE ai.message,
          action |-> call.plugin, openRecorder |-> result.openRecorder]

\* the reply processWithAI's catch builds when execute throws
AICatch(ai) == [message |-> ai.message, action |-> ai.action, openRecorder |-> FALSE]

ExecuteReturnAI(p) ==
    /\ EventLoopIdle
    /\ procs[p].pc = "exec_ai"
    /\ \/ \E result \in PluginResults(procs[p].call) :
             procs' = [procs EXCEPT ![p] =
                [@ EXCEPT !.outcome = IF result.success THEN "success" ELSE "failure",
                          !.result = result,
                          !.response = AIReply(procs[p].ai, procs[p].call, result),
                          !.pc = "respond"]]
       \/ procs' = [procs EXCEPT ![p] =
             [@ EXCEPT !.outcome = "throw",
                       !.response = AICatch(procs[p].ai),
                       !.pc = "respond"]]
    /\ UNCHANGED << recorder, args, returned, env, input, transcript, isListening, isProcessing, messages,
                    activePlugins, showRecorder, timers, accepted >>

(***************************************************************************)
(* The keyword path of processInput.                                       *)
(***************************************************************************)
KeywordMatch(p) ==
    /\ procs[p].pc = "kw"
    /\ LET m == KeywordTable[procs[p].userInput][procs[p].active]
       IN  procs' = [procs EXCEPT ![p] =
              IF m.exec
              THEN [@ EXCEPT !.kw = TRUE,
                             !.call = [plugin |-> m.plugin, action |-> m.action,
                                       render |-> m.render, tag |-> m.tag],
                             !.execs = Append(@, [plugin |-> m.plugin,
                                                  action |-> m.action,
                                                  path |-> "kw"]),
                             !.pc = "exec_kw"]
              ELSE [@ EXCEPT !.kw = TRUE,
                             !.response = [message |-> "fixed", action |-> m.tag,
                                           openRecorder |-> FALSE],
                             !.pc = "respond"]]
    /\ UNCHANGED << recorder, args, returned, env, input, transcript, isListening, isProcessing, messages,
                    activePlugins, showRecorder, timers, accepted >>

\* the reply processWithKeywords builds from the plugin's result
KeywordReply(call, result) ==
    IF call.render = "list"
    THEN IF result.list = "some"
         THEN [message |-> "list", action |-> call.tag, openRecorder |-> result.openRecorder]
         ELSE [message |-> "fixed", action |-> call.tag, openRecorder |-> FALSE]
    ELSE [message |-> IF result.message THEN "plugin" ELSE "undefined",
          action |-> call.tag,
          openRecorder |-> call.plugin # "search" /\ result.openRecorder]

\* processWithKeywords has no try: a throw of execute leaves it and is
\* caught by processInput
ExecuteReturnKeywords(p) ==
    /\ EventLoopIdle
    /\ procs[p].pc = "exec_kw"
    /\ \/ \E result \in PluginResults(procs[p].call) :
             procs' = [procs EXCEPT ![p] =
                [@ EXCEPT !.outcome = IF result.success THEN "success" ELSE "failure",
                          !.result = result,
                          !.response = KeywordReply(procs[p].call, result),
                          !.pc = "respond"]]
       \/ procs' = [procs EXCEPT ![p] =
             [@ EXCEPT !.outcome = "throw", !.thrown = "execute", !.pc = "catch"]]
    /\ UNCHANGED << recorder, args, returned, env, input, transcript, isListening, isProcessing, messages,
                    activePlugins, showRecorder, timers, accepted >>

(***************************************************************************)
(* The end of processInput.                                                *)
(***************************************************************************)
\* the assistant message, the recorder, speech, and the onAction callback,
\* which may throw
Respond(p) ==
    /\ procs[p].pc = "respond"
    /\ messages' = Append(messages, [role |-> "assistant",
                                     content |-> procs[p].response.message])
    /\ showRecorder' = (showRecorder \/ procs[p].response.openRecorder)
    /\ IF env.onAction /\ procs[p].response.action # "undefined"
       THEN \E throws \in BOOLEAN :
               procs' = [procs EXCEPT ![p] =
                  IF throws
                  THEN [@ EXCEPT !.thrown = "onAction", !.pc = "catch"]
                  ELSE [@ EXCEPT !.pc = "finally"]]
       ELSE procs' = [procs EXCEPT ![p].pc = "finally"]
    /\ UNCHANGED << recorder, args, returned, env, input, transcript, isListening, isProcessing,
                    activePlugins, timers, accepted >>

\* catch (error): the apology
Catch(p) ==
    /\ procs[p].pc = "catch"
    /\ messages' = Append(messages, [role |-> "assistant", content |-> "apology"])
    /\ procs' = [procs EXCEPT ![p].pc = "finally"]
    /\ UNCHANGED << recorder, args, returned, env, input, transcript, isListening, isProcessing,
                    activePlugins, showRecorder, timers, accepted >>

\* finally: setIsProcessing(false)
Finally_KeepProcessing(p) ==
    /\ procs[p].pc = "finally"
    /\ procs' = [procs EXCEPT ![p] = IdleProc]
    /\ UNCHANGED << recorder, args, returned, env, input, transcript, isListening, isProcessing, messages,
                    activePlugins, showRecorder, timers, accepted >>

Finally(p) ==
    /\ procs[p].pc = "finally"
    /\ isProcessing' = FALSE
    /\ procs' = [procs EXCEPT ![p] = IdleProc]
    /\ UNCHANGED << recorder, args, returned, env, input, transcript, isListening, messages,
                    activePlugins, showRecorder, timers, accepted >>

Next ==
    \/ TypeInput
    \/ handleSubmit
    \/ handleVoiceToggle
    \/ VoiceResult
    \/ VoiceEnd
    \/ VoiceTimeout
    \/ TogglePlugin
    \/ \E p \in Slots : ContextAIStart(p)
    \/ \E p \in Slots : ContextReturn(p)
    \/ \E p \in Slots : ProviderReturn(p)
    \/ \E p \in Slots : AIDispatch(p)
    \/ \E p \in Slots : ExecuteReturnAI(p)
    \/ \E p \in Slots : KeywordMatch(p)
    \/ \E p \in Slots : ExecuteReturnKeywords(p)
    \/ \E p \in Slots : Respond(p)
    \/ \E p \in Slots : Catch(p)
    \/ \E p \in Slots : Finally(p)

Spec == Init /\ [][Next]_vars

\* the steps of one execution of processInput: its microtasks, and the
\* returns of the calls it awaits
Progress(p) ==
    \/ ContextAIStart(p)
    \/ ContextReturn(p)
    \/ ProviderReturn(p)
    \/ AIDispatch(p)
    \/ ExecuteReturnAI(p)
    \/ KeywordMatch(p)
    \/ ExecuteReturnKeywords(p)
    \/ Respond(p)
    \/ Catch(p)
    \/ Finally(p)

\* the event loop runs every continuation that is ready, and every awaited
\* call returns
FairSpec == Spec /\ \A p \in Slots : WF_vars(Progress(p))


(***************************************************************************)
(* timeParser.js.  A Date is the number of minutes of local time since the *)
(* midnight that begins a Sunday; there is no daylight-saving change.      *)
(***************************************************************************)
At(day, hours, minutes) == (day * 24 + hours) * 60 + minutes

\* Date.prototype.getDay: 0 is Sunday
getDay(date) == (date \div (24 * 60)) % 7

\* date.setDate(date.getDate() + n)
addDays(date, n) == date + n * 24 * 60

\* date.setHours(hours, minutes, 0, 0)
setHours(date, hours, minutes) ==
    (date \div (24 * 60)) * (24 * 60) + hours * 60 + minutes

\* the component's helper getNextWeekday(targetDay), called at now
getNextWeekday_TodayCounts(targetDay, now) ==
    IF targetDay - getDay(now) < 0
    THEN addDays(now, targetDay - getDay(now) + 7)
    ELSE addDays(now, targetDay - getDay(now))

getNextWeekday(targetDay, now) ==
    IF targetDay - getDay(now) <= 0
    THEN addDays(now, targetDay - getDay(now) + 7)
    ELSE addDays(now, targetDay - getDay(now))

Digits == "0123456789"

DigitValue(c) == CHOOSE d \in 0..9 : CharAt(Digits, d + 1) = c

\* parseInt of a string of digits
RECURSIVE ParseIntFrom(_, _, _)
ParseIntFrom(s, i, acc) ==
    IF i > Len(s) THEN acc
    ELSE ParseIntFrom(s, i + 1, acc * 10 + DigitValue(CharAt(s, i)))

parseInt(s) == ParseIntFrom(s, 1, 0)

NoMatch == [start |-> 0, end |-> 0]

\* the leftmost index of a set of match starts
Leftmost(starts) == IF starts = {} THEN 0 ELSE Min(starts)

\* /in\s+(\d+)\s*(minute|min|hour|hr|day|week)s?/i matched at index i
Units == <<"minute", "min", "hour", "hr", "day", "week">>

InMatchAt(s, i) ==
    LET a == i + 2
        b == SkipSpaces(s, a)
        c == SkipDigits(s, b)
        d == SkipSpaces(s, c)
        u == FirstAlt(s, d, Units)
    IN  IF StartsAt(s, i, "in") /\ b > a /\ c > b /\ u # 0
        THEN LET e == d + Len(Units[u])
             IN  [start |-> i,
                  end |-> IF CharAt(s, e) = "s" THEN e ELSE e - 1,
                  amount |-> parseInt(Slice(s, b, c - 1)),
                  unit |-> Units[u]]
        ELSE NoMatch

InMatch(s) ==
    LET i == Leftmost({k \in 1..Len(s) : InMatchAt(s, k).start # 0})
    IN  IF i = 0 THEN NoMatch ELSE InMatchAt(s, i)

\* /(?:at\s+)?(\d{1,2})(?::(\d{2}))?\s*(am|pm)?/i matched at index i
TimeMatchAt(s, i) ==
    LET a == SkipSpaces(s, i + 2)
        withAt == StartsAt(s, i, "at") /\ a > i + 2 /\ IsDigit(CharAt(s, a))
        h0 == IF withAt THEN a ELSE i
        h1 == IF IsDigit(CharAt(s, h0 + 1)) THEN h0 + 1 ELSE h0
        hasMinutes == /\ CharAt(s, h1 + 1) = ":"
                      /\ IsDigit(CharAt(s, h1 + 2))
                      /\ IsDigit(CharAt(s, h1 + 3))
        m1 == IF hasMinutes THEN h1 + 3 ELSE h1
        p0 == SkipSpaces(s, m1 + 1)
        period == IF StartsAt(s, p0, "am") THEN "am"
                  ELSE IF StartsAt(s, p0, "pm") THEN "pm" ELSE ""
    IN  IF withAt \/ IsDigit(CharAt(s, i))
        THEN [start |-> i,
              end |-> IF period # "" THEN p0 + 1 ELSE p0 - 1,
              hours |-> parseInt(Slice(s, h0, h1)),
              minutes |-> IF hasMinutes THEN parseInt(Slice(s, h1 + 2, h1 + 3)) ELSE 0,
              period |-> period]
        ELSE NoMatch

TimeMatch(s) ==
    LET i == Leftmost({k \in 1..Len(s) : TimeMatchAt(s, k).start # 0})
    IN  IF i = 0 THEN NoMatch ELSE TimeMatchAt(s, i)

\* /(next|this)?\s*(sunday|...|saturday)/i matched at index i
weekdays == <<"sunday", "monday", "tuesday", "wednesday", "thursday", "friday",
              "saturday">>

WeekdayMatchAt(s, i) ==
    LET pre == FirstAlt(s, i, <<"next", "this">>)
        j1 == SkipSpaces(s, i + 4)
        w1 == IF pre # 0 THEN FirstAlt(s, j1, weekdays) ELSE 0
        j2 == SkipSpaces(s, i)
        w2 == FirstAlt(s, j2, weekdays)
    IN  IF w1 # 0
        THEN [start |-> i, end |-> j1 + Len(weekdays[w1]) - 1,
              isNext |-> pre = 1, targetDay |-> w1 - 1]
        ELSE IF w2 # 0
        THEN [start |-> i, end |-> j2 + Len(weekdays[w2]) - 1,
              isNext |-> FALSE, targetDay |-> w2 - 1]
        ELSE NoMatch

WeekdayMatch(s) ==
    LET i == Leftmost({k \in 1..Len(s) : WeekdayMatchAt(s, k).start # 0})
    IN  IF i = 0 THEN NoMatch ELSE WeekdayMatchAt(s, i)

\* /in\s+a\s+week/i
InAWeek(s) ==
    \E i \in 1..Len(s) :
        LET a == SkipSpaces(s, i + 2)
            b == SkipSpaces(s, a + 1)
        IN  /\ StartsAt(s, i, "in")
            /\ a > i + 2
            /\ CharAt(s, a) = "a"
            /\ b > a + 1
            /\ StartsAt(s, b, "week")

\* the first of today, tonight, tomorrow, day after tomorrow the text includes
dayWords == << [word |-> "today", daysAhead |-> 0],
               [word |-> "tonight", daysAhead |-> 0],
               [word |-> "tomorrow", daysAhead |-> 1],
               [word |-> "day after tomorrow", daysAhead |-> 2] >>

DayWord(s) == Leftmost({k \in 1..Len(dayWords) : Includes(s, dayWords[k].word)})

\* the conversion of the hour to the 24-hour clock
Hours24_AsGiven(hours, period) == hours

Hours24(hours, period) ==
    IF period = "pm" /\ hours # 12 THEN hours + 12
    ELSE IF period = "am" /\ hours = 12 THEN 0
    ELSE IF period = "" /\ hours < 12 /\ hours # 0 /\ hours >= 1 /\ hours <= 7
    THEN hours + 12
    ELSE hours

\* a value that may be null: << >> is null, << v >> is v
Null == <<>>
Some(v) == <<v>>

ParsedTime_NoText(date, matched) == [date |-> Some(date), matched |-> Null]

ParsedTime(date, matched) == [date |-> Some(date), matched |-> Some(matched)]

\* targetDate after the day patterns: lines 46-81
TargetDate_NextAddsAWeek(now, dayWord, weekdayMatch, nextWeek) ==
    IF nextWeek THEN addDays(now, 7)
    ELSE IF weekdayMatch.start # 0
    THEN addDays(now, weekdayMatch.targetDay - getDay(now)
                      + (IF weekdayMatch.targetDay - getDay(now) <= 0 THEN 7 ELSE 0)
                      + (IF weekdayMatch.isNext THEN 7 ELSE 0))
    ELSE IF dayWord # 0 THEN addDays(now, dayWords[dayWord].daysAhead)
    ELSE now

TargetDate(now, dayWord, weekdayMatch, nextWeek) ==
    IF nextWeek THEN addDays(now, 7)
    ELSE IF weekdayMatch.start # 0
    THEN IF weekdayMatch.targetDay - getDay(now) <= 0 \/ weekdayMatch.isNext
         THEN addDays(now, weekdayMatch.targetDay - getDay(now) + 7)
         ELSE addDays(now, weekdayMatch.targetDay - getDay(now))
    ELSE IF dayWord # 0 THEN addDays(now, dayWords[dayWord].daysAhead)
    ELSE now

\* matchedDay after the day patterns: lines 47-81
MatchedDay(lowerText, dayWord, weekdayMatch, nextWeek) ==
    IF nextWeek THEN Some("next week")
    ELSE IF weekdayMatch.start # 0
    THEN Some(Slice(lowerText, weekdayMatch.start, weekdayMatch.end))
    ELSE IF dayWord # 0 THEN Some(dayWords[dayWord].word)
    ELSE Null

\* the date of inMatch: lines 18-30
InDate_Minutes(now, inMatch) == now + inMatch.amount

InDate(now, inMatch) ==
    CASE StartsWith(inMatch.unit, "min") -> now + inMatch.amount
      [] StartsWith(inMatch.unit, "hour") \/ inMatch.unit = "hr" ->
             now + inMatch.amount * 60
      [] inMatch.unit = "day" -> addDays(now, inMatch.amount)
      [] inMatch.unit = "week" -> addDays(now, inMatch.amount * 7)
      [] OTHER -> now

\* the date when a time was found: lines 85-107
TimeDate_NoRoll(now, atTime, matchedDay) == atTime

TimeDate(now, atTime, matchedDay) ==
    IF matchedDay = Null /\ atTime <= now THEN addDays(atTime, 1) ELSE atTime

\* the default time when only a day was found: lines 118-129
DefaultTime(lowerText, targetDate) ==
    IF Includes(lowerText, "morning") THEN setHours(targetDate, 9, 0)
    ELSE IF Includes(lowerText, "afternoon") THEN setHours(targetDate, 14, 0)
    ELSE IF Includes(lowerText, "evening") \/ Includes(lowerText, "tonight")
    THEN setHours(targetDate, 18, 0)
    ELSE IF Includes(lowerText, "night") THEN setHours(targetDate, 21, 0)
    ELSE setHours(targetDate, 9, 0)

\* end of day: lines 136-139
EndOfDay(now, fivePm) == IF fivePm <= now THEN addDays(fivePm, 1) ELSE fivePm

\* the returns of parseTimeExpression, in the order of the code
ReturnParsed_DayFirst(text, lowerText, now, inMatch, timeMatch, targetDate, matchedDay) ==
    IF matchedDay # Null
    THEN ParsedTime(DefaultTime(lowerText, targetDate), matchedDay[1])
    ELSE IF inMatch.start # 0
    THEN ParsedTime(InDate(now, inMatch),
                    Slice(lowerText, inMatch.start, inMatch.end))
    ELSE [date |-> Null, matched |-> Null]

ReturnParsed(text, lowerText, now, inMatch, timeMatch, targetDate, matchedDay) ==
    IF text = "" THEN [date |-> Null, matched |-> Null]
    ELSE IF inMatch.start # 0
    THEN ParsedTime(InDate(now, inMatch),
                    Slice(lowerText, inMatch.start, inMatch.end))
    ELSE IF timeMatch.start # 0
    THEN ParsedTime(
             TimeDate(now,
                      setHours(targetDate,
                               Hours24(timeMatch.hours, timeMatch.period),
                               timeMatch.minutes),
                      matchedDay),
             (IF matchedDay # Null THEN matchedDay[1] \o " at " ELSE "at ")
                 \o Slice(lowerText, timeMatch.start, timeMatch.end))
    ELSE IF matchedDay # Null
    THEN ParsedTime(DefaultTime(lowerText, targetDate), matchedDay[1])
    ELSE IF Includes(lowerText, "end of day") \/ Includes(lowerText, "eod")
    THEN ParsedTime(EndOfDay(now, setHours(targetDate, 17, 0)), "end of day")
    ELSE IF Includes(lowerText, "this morning")
    THEN ParsedTime(setHours(targetDate, 9, 0), "this morning")
    ELSE IF Includes(lowerText, "this afternoon")
    THEN ParsedTime(setHours(targetDate, 14, 0), "this afternoon")
    ELSE IF Includes(lowerText, "this evening")
    THEN ParsedTime(setHours(targetDate, 18, 0), "this evening")
    ELSE [date |-> Null, matched |-> Null]

\* the day patterns, from the matches of the regular expressions
ApplyDayPatterns(text, lowerText, now, inMatch, timeMatch, dayWord, weekdayMatch, nextWeek) ==
    ReturnParsed(text, lowerText, now, inMatch, timeMatch,
                 TargetDate(now, dayWord, weekdayMatch, nextWeek),
                 MatchedDay(lowerText, dayWord, weekdayMatch, nextWeek))

\* the matches of the regular expressions in the lower-cased text
MatchPatterns(text, lowerText, now) ==
    ApplyDayPatterns(text, lowerText, now, InMatch(lowerText), TimeMatch(lowerText),
                     DayWord(lowerText), WeekdayMatch(lowerText),
                     Includes(lowerText, "next week") \/ InAWeek(lowerText))

parseTimeExpression(text, now) == MatchPatterns(text, toLowerCase(text), now)

(***************************************************************************)
(* timeParser.js: extractReminderContent.                                  *)
(***************************************************************************)
\* the index of the leftmost occurrence of w in s whatever the case, 0 if none
IndexOfI(s, w) == Leftmost({i \in 1..Len(s) : StartsAtI(s, i, toLowerCase(w))})

\* text.replace(new RegExp(matched, 'i'), ''): matched holds letters, digits,
\* spaces and colons only, so the pattern is the literal text
RemoveFirst(s, w) ==
    LET i == IndexOfI(s, w)
    IN  IF i = 0 \/ w = "" THEN s
        ELSE Slice(s, 1, i - 1) \o Slice(s, i + Len(w), Len(s))

\* .replace(/^(to|about|that|for)\s+/i, '')
StripLeadingFiller(s) ==
    LET e == AltEnd(s, 1, <<"to", "about", "that", "for">>)
    IN  IF e # 0 /\ IsSpace(CharAt(s, e + 1))
        THEN Slice(s, SkipSpaces(s, e + 1), Len(s))
        ELSE s

\* .replace(/\s+(at|on|in|by|before|after)$/i, '')
StripTrailingPreposition(s) ==
    LET preps == <<"at", "on", "in", "by", "before", "after">>
        hits == {k \in 1..Len(preps) :
                   /\ StartsAtI(s, Len(s) - Len(preps[k]) + 1, preps[k])
                   /\ IsSpace(CharAt(s, Len(s) - Len(preps[k])))}
    IN  IF hits = {} THEN s
        ELSE Slice(s, 1, TrimEndIndex(s, Len(s) - Len(preps[Min(hits)])))

\* .replace(/^(remind\s+me\s+to|remind\s+me|reminder|remind)\s*/i, '') of
\* plugins.reminders.execute
StripRemindPrefix_Keep(s) == s

StripRemindPrefix(s) ==
    LET a == SkipSpaces(s, 7)
        b == SkipSpaces(s, a + 2)
        me == StartsAtI(s, 1, "remind") /\ a > 7 /\ StartsAtI(s, a, "me")
        meTo == me /\ b > a + 2 /\ StartsAtI(s, b, "to")
        e == IF meTo THEN b + 2
             ELSE IF me THEN a + 2
             ELSE IF StartsAtI(s, 1, "reminder") THEN 9
             ELSE IF StartsAtI(s, 1, "remind") THEN 7
             ELSE 0
    IN  IF e = 0 THEN s ELSE Slice(s, SkipSpaces(s, e), Len(s))

\* matched is null (<< >>) or << the matched text >>
extractReminderContent_StripsRemind(text, matched) ==
    IF text = "" THEN ""
    ELSE IF matched = Null \/ matched = Some("") THEN text
    ELSE trim(StripTrailingPreposition(StripLeadingFiller(
             StripRemindPrefix(trim(RemoveFirst(text, matched[1]))))))

extractReminderContent(text, matched) ==
    IF text = "" THEN ""
    ELSE IF matched = Null \/ matched = Some("") THEN text
    ELSE trim(StripTrailingPreposition(StripLeadingFiller(
             trim(RemoveFirst(text, matched[1])))))

(***************************************************************************)
(* timeParser.js: formatReminderTime.  Minute 0 of the model's time is     *)
(* 00:00 of Sunday 1 January 2023.                                         *)
(***************************************************************************)
\* the decimal digits of a natural number, and of an integer
RECURSIVE NatToStr(_)
NatToStr(n) ==
    IF n < 10 THEN CharAt(Digits, n + 1)
    ELSE NatToStr(n \div 10) \o CharAt(Digits, (n % 10) + 1)

IntToStr(n) == IF n < 0 THEN "-" \o NatToStr(0 - n) ELSE NatToStr(n)

\* Math.round(n / d) for a positive d: halves are rounded up
Round(n, d) == (2 * n + d) \div (2 * d)

\* Date.prototype.getHours and getMinutes
getHours(date) == (date % (24 * 60)) \div 60
getMinutes(date) == date % 60

\* date.toDateString() of two dates are equal
SameDay(a, b) == a \div (24 * 60) = b \div (24 * 60)

\* date.toLocaleTimeString('en-US', {hour: 'numeric', minute: '2-digit',
\* hour12: true})
TimeStr(date) ==
    LET h == getHours(date)
        m == getMinutes(date)
    IN  IntToStr(IF h % 12 = 0 THEN 12 ELSE h % 12) \o ":"
          \o (IF m < 10 THEN "0" ELSE "") \o IntToStr(m)
          \o (IF h < 12 THEN " AM" ELSE " PM")

LongWeekdays == <<"Sunday", "Monday", "Tuesday", "Wednesday", "Thursday", "Friday",
                  "Saturday">>

ShortWeekdays == <<"Sun", "Mon", "Tue", "Wed", "Thu", "Fri", "Sat">>

\* the months of 2023
Months == << [name |-> "Jan", days |-> 31], [name |-> "Feb", days |-> 28],
             [name |-> "Mar", days |-> 31], [name |-> "Apr", days |-> 30],
             [name |-> "May", days |-> 31], [name |-> "Jun", days |-> 30],
             [name |-> "Jul", days |-> 31], [name |-> "Aug", days |-> 31],
             [name |-> "Sep", days |-> 30], [name |-> "Oct", days |-> 31],
             [name |-> "Nov", days |-> 30], [name |-> "Dec", days |-> 31] >>

\* the month and the day of the month of the day'th day of the year, from 0
RECURSIVE MonthDay(_, _)
MonthDay(day, month) ==
    IF month >= Len(Months) \/ day < Months[month].days
    THEN Months[month].name \o " " \o IntToStr(day + 1)
    ELSE MonthDay(day - Months[month].days, month + 1)

\* date.toLocaleDateString('en-US', {weekday: 'short', month: 'short',
\* day: 'numeric', hour: 'numeric', minute: '2-digit'})
LongDateStr(date) ==
    ShortWeekdays[getDay(date) + 1] \o ", " \o MonthDay(date \div (24 * 60), 1)
        \o ", " \o TimeStr(date)

\* formatReminderTime(date), called at now; date is null or << the date >>
formatReminderTime(date, now) ==
    IF date = Null THEN ""
    ELSE LET d == date[1]
             diffMins == d - now
             diffHours == Round(d - now, 60)
             diffDays == Round(d - now, 24 * 60)
             isToday == SameDay(d, now)
             isTomorrow == SameDay(d, addDays(now, 1))
         IN  IF diffMins < 60 THEN "in " \o IntToStr(diffMins) \o " minutes"
             ELSE IF diffHours < 24 /\ isToday THEN "today at " \o TimeStr(d)
             ELSE IF isTomorrow THEN "tomorrow at " \o TimeStr(d)
             ELSE IF diffDays < 7
             THEN LongWeekdays[getDay(d) + 1] \o " at " \o TimeStr(d)
             ELSE LongDateStr(d)

(***************************************************************************)
(* The keyword path of one utterance, from processWithKeywords to the      *)
(* reply, for the reminders plugin's create and the text plugin's send.    *)
(* The emoji that begin the plugins' messages are left out.                *)
(***************************************************************************)
\* the params of the reminders branch: part_001 lines 3160-3168
ReminderParams(userInput) ==
    [action |-> "create",
     content |-> StripPrefix(userInput,
                     <<"remind", "reminder", "remind me", "don't forget">>),
     rawInput |-> userInput,
     time |-> Null]

\* reminderContent: lines 1890-1917
ReminderContent(params, parsed) ==
    LET cleaned ==
            IF parsed.date # Null /\ parsed.matched # Null /\ params.rawInput # ""
            THEN trim(StripRemindPrefix(
                     extractReminderContent(params.rawInput, parsed.matched)))
            ELSE trim(params.content)
    IN  IF cleaned = "" THEN trim(params.content) ELSE cleaned

\* remindAt and timeDescription: lines 1893-1912
ReminderTime(params, now, parsed) ==
    IF parsed.date # Null
    THEN [remindAt |-> parsed.date[1],
          timeDescription |-> formatReminderTime(parsed.date, now)]
    ELSE IF params.time # Null
    THEN [remindAt |-> params.time[1],
          timeDescription |-> formatReminderTime(params.time, now)]
    ELSE \* Default: 1 hour from now
         [remindAt |-> now + 60, timeDescription |-> "in 1 hour"]

NoResult == [success |-> FALSE, message |-> "", stored |-> Null, sms |-> Null,
             thrown |-> FALSE]

\* the insert and the result: lines 1919-1942; with supabase the insert may
\* return an error, which is thrown
ReminderStored(supabase, content, time) ==
    { [NoResult EXCEPT
         !.success = TRUE,
         !.message = "Reminder set for " \o time.timeDescription \o ": \""
                        \o content \o "\"",
         !.stored = Some([content |-> content, remind_at |-> time.remindAt,
                          is_completed |-> FALSE])] }
    \cup (IF supabase THEN {[NoResult EXCEPT !.thrown = TRUE]} ELSE {})

RemindersCreate(params, now, supabase, parsed) ==
    ReminderStored(supabase, ReminderContent(params, parsed),
                   ReminderTime(params, now, parsed))

\* the results plugins.reminders.execute can return for action create
RemindersExecute(params, now, supabase) ==
    IF trim(params.content) = ""
    THEN {[NoResult EXCEPT !.message = "What should I remind you about?"]}
    ELSE RemindersCreate(params, now, supabase,
             parseTimeExpression(IF params.rawInput # "" THEN params.rawInput
                                 ELSE params.content, now))

\* the end of the first capture of textMatch: the last white space such that
\* phone characters only lie between the keyword and it, and a character
\* follows it
TextNumberEnd(s, v) ==
    Max({y \in (v + 3)..(Len(s) - 1) :
            /\ IsSpace(CharAt(s, y))
            /\ \A m \in (v + 1)..y : IsPhoneChar(CharAt(s, m))})

\* the end of the first capture of contactTextMatch, which is lazy: the
\* first white space after the name's first letter
TextContactEnd(s, x) ==
    Min({y \in (x + 1)..(Len(s) - 1) :
            /\ IsSpace(CharAt(s, y))
            /\ \A m \in x..y : IsLetter(CharAt(s, m)) \/ IsSpace(CharAt(s, m))})

\* the params of the text branch's two send calls: part_001 lines 3267-3292
TextParams(userInput) ==
    LET v == AltEnd(userInput, 1, <<"text", "sms", "message">>)
    IN  IF TextNumberMatch(userInput)
        THEN [action |-> "send",
              to |-> trim(Slice(userInput, v + 1, TextNumberEnd(userInput, v) - 1)),
              contactName |-> "",
              body |-> trim(Slice(userInput, TextNumberEnd(userInput, v) + 1,
                                  Len(userInput)))]
        ELSE [action |-> "send",
              to |-> "",
              contactName |->
                  trim(Slice(userInput, SkipSpaces(userInput, v + 1),
                             TextContactEnd(userInput,
                                            SkipSpaces(userInput, v + 1)) - 1)),
              body |->
                  trim(Slice(userInput,
                             TextContactEnd(userInput,
                                            SkipSpaces(userInput, v + 1)) + 1,
                             Len(userInput)))]

\* the rows of assistant_contacts whose name or nickname contains the
\* contact name whatever the case (ilike); the query returns one of them
LookupRows(contacts, contactName) ==
    {c \in contacts :
        \/ Includes(toLowerCase(c.name), toLowerCase(contactName))
        \/ Includes(toLowerCase(c.nickname), toLowerCase(contactName))}

\* the send of plugins.text.execute: lines 2412-2477; the request to
\* send-sms succeeds or fails
TextSend(params, phoneNumber) ==
    IF phoneNumber = ""
    THEN {[NoResult EXCEPT !.message = "Who would you like to text?"]}
    ELSE IF params.body = ""
    THEN {[NoResult EXCEPT !.message = "What would you like to say?"]}
    ELSE { [NoResult EXCEPT
              !.success = TRUE,
              !.message = "Text sent to "
                  \o (IF params.contactName # ""
                      THEN params.contactName \o " (" \o phoneNumber \o ")"
                      ELSE phoneNumber)
                  \o ": \"" \o params.body \o "\"",
              !.sms = Some([to |-> phoneNumber, body |-> params.body])],
           [NoResult EXCEPT
              !.message = "Failed to send text",
              !.sms = Some([to |-> phoneNumber, body |-> params.body])] }

\* the contact lookup of plugins.text.execute, lines 2388-2410, given the
\* rows that match: the query returns one of them, or nothing when it
\* fails; without a row that has a phone the plugin returns at once
TextLookup(params, rows) ==
    {[NoResult EXCEPT !.message = "I couldn't find the contact"]}
    \cup UNION {IF row.phone # "" THEN TextSend(params, row.phone) ELSE {} :
                  row \in rows}

\* the results plugins.text.execute can return for action send
TextExecute(params, supabase, contacts) ==
    IF params.contactName # "" /\ params.to = "" /\ supabase
    THEN TextLookup(params, LookupRows(contacts, params.contactName))
    ELSE TextSend(params, params.to)

\* what processInput does with an utterance the keyword matcher handles:
\* the branch taken, the params given to execute, one of the results execute
\* can return and the assistant's message (the apology of processInput's
\* catch when execute throws)
PathOutcome(call, params, result) ==
    [call |-> call, params |-> params, result |-> result,
     message |-> IF result.thrown THEN "Sorry, I encountered an error"
                 ELSE result.message]

KeywordPathOf(c, call) ==
    IF call.exec /\ call.plugin = "reminders" /\ call.action = "create"
    THEN {PathOutcome(call, ReminderParams(c.text), r) :
             r \in RemindersExecute(ReminderParams(c.text), c.now, c.supabase)}
    ELSE IF call.exec /\ call.plugin = "text" /\ call.action = "send"
    THEN {PathOutcome(call, TextParams(c.text), r) :
             r \in TextExecute(TextParams(c.text), c.supabase, c.contacts)}
    ELSE \* another branch: its plugin is not followed here
         {[call |-> call, params |-> Null, result |-> NoResult, message |-> ""]}

KeywordPath(c) == KeywordPathOf(c, processWithKeywords(c.text, c.active))

(***************************************************************************)
(* The functions called by themselves: one call, on arguments drawn from   *)
(* the sets below, and its return.                                         *)
(***************************************************************************)
ParserTexts ==
    { "", "call mom", "in 30 minutes", "In 2 hrs", "water plants in 3 days",
      "in 2 weeks", "call mom tomorrow at 3pm", "tomorrow", "at 10:30am",
      "meeting at 14:00", "day after tomorrow", "next Monday",
      "on Friday morning", "this friday at 5", "next week", "in a week",
      "report by EOD", "end of day", "this evening", "tonight",
      "buy 2 apples tomorrow", "today at 12am" }

\* a Wednesday morning, a Saturday night, a Sunday evening
Nows == {At(3, 10, 30), At(6, 23, 30), At(0, 18, 0)}

\* the texts 'in N <unit>' of the relative-offset pattern, with the number
\* and the duration in minutes each one stands for
OffsetAmounts ==
    { [digits |-> "0", value |-> 0], [digits |-> "2", value |-> 2],
      [digits |-> "45", value |-> 45] }

OffsetUnits ==
    { [word |-> "minute", minutes |-> 1], [word |-> "minutes", minutes |-> 1],
      [word |-> "min", minutes |-> 1], [word |-> "mins", minutes |-> 1],
      [word |-> "hour", minutes |-> 60], [word |-> "hours", minutes |-> 60],
      [word |-> "hr", minutes |-> 60], [word |-> "hrs", minutes |-> 60],
      [word |-> "day", minutes |-> 24 * 60], [word |-> "days", minutes |-> 24 * 60],
      [word |-> "week", minutes |-> 7 * 24 * 60],
      [word |-> "weeks", minutes |-> 7 * 24 * 60] }

OffsetText(a, u) == "in " \o a.digits \o " " \o u.word

OffsetTexts == {OffsetText(a, u) : a \in OffsetAmounts, u \in OffsetUnits}

\* texts that name no time
PlainTexts == {"call mom", "buy 2 apples", "pay 100 dollars", "room 42"}

\* 'next <weekday>' for each weekday, with the day it names
NextWeekdays ==
    { [text |-> "next sunday", day |-> 0], [text |-> "next monday", day |-> 1],
      [text |-> "next tuesday", day |-> 2], [text |-> "next wednesday", day |-> 3],
      [text |-> "next thursday", day |-> 4], [text |-> "next Friday", day |-> 5],
      [text |-> "next saturday", day |-> 6] }

NextWeekdayTexts == {w.text : w \in NextWeekdays}

\* the first and the last half hour of each day of a week
WeekNows == {At(d, 0, 0) : d \in 0..6} \cup {At(d, 23, 30) : d \in 0..6}

\* a day word followed by 'at H(am|pm)', and the day words by themselves
Clocks ==
    { [text |-> "3pm", hours |-> 15], [text |-> "9am", hours |-> 9],
      [text |-> "12pm", hours |-> 12], [text |-> "12am", hours |-> 0] }

DayWordTexts == {dayWords[k].word : k \in 1..Len(dayWords)}

DayTimeText(word, c) == word \o " at " \o c.text

DayTimeTexts == {DayTimeText(word, c) : word \in DayWordTexts, c \in Clocks}

\* a weekday name without 'next', plain or after 'this', with the day it
\* names
PlainWeekdays ==
    { [text |-> "sunday", day |-> 0], [text |-> "this monday", day |-> 1],
      [text |-> "Tuesday", day |-> 2], [text |-> "this wednesday", day |-> 3],
      [text |-> "thursday at 3pm", day |-> 4], [text |-> "this Friday", day |-> 5],
      [text |-> "call mom saturday", day |-> 6] }

PlainWeekdayTexts == {w.text : w \in PlainWeekdays}

\* 'at H' for every hour of the day without am / pm, and some hours with
\* am / pm; no day is named
BareHours ==
    {[text |-> "at " \o NatToStr(h), hours |-> h, period |-> ""] : h \in 0..23}

MarkedHours ==
    {[text |-> "at " \o NatToStr(h) \o p, hours |-> h, period |-> p] :
        h \in {1, 3, 11, 12}, p \in {"am", "pm"}}

ClockOnlyTexts ==
    {c.text : c \in BareHours \cup MarkedHours} \cup {"at 10:30am", "meeting at 14:00"}

\* a relative offset next to a day word, a weekday, 'next week' or a clock
\* time, with the phrase of the offset and its duration in minutes
MixedOffsets ==
    { [text |-> "call mom tomorrow at 3pm in 2 hours", phrase |-> "in 2 hours",
       minutes |-> 120],
      [text |-> "next friday in 3 days", phrase |-> "in 3 days",
       minutes |-> 3 * 24 * 60],
      [text |-> "next week in 1 week", phrase |-> "in 1 week",
       minutes |-> 7 * 24 * 60],
      [text |-> "Tonight at 9 In 45 min", phrase |-> "in 45 min", minutes |-> 45],
      [text |-> "in 10 minutes on monday at 14:00", phrase |-> "in 10 minutes",
       minutes |-> 10] }

MixedOffsetTexts == {m.text : m \in MixedOffsets}

\* every text parseTimeExpression is called on, and the values of now it
\* is called at
ParserInputs ==
    ParserTexts \cup OffsetTexts \cup PlainTexts \cup NextWeekdayTexts
        \cup DayWordTexts \cup DayTimeTexts \cup MixedOffsetTexts
        \cup PlainWeekdayTexts \cup ClockOnlyTexts

NowsOf(text) ==
    IF text \in NextWeekdayTexts \cup PlainWeekdayTexts THEN WeekNows ELSE Nows

\* the calls that build the params of an AI-resolved intent: the AI's
\* action, the params object of its reply, the persistence client
AIParams ==
    { "content" :> "buy milk",
      "content" :> "",
      "query" :> "tlaplus",
      "action" :> "clear",
      "supabase" :> "theirs",
      ("content" :> "all of them") @@ ("action" :> "clear"),
      ("listName" :> "Shopping") @@ ("rawInput" :> "other") }

ParamsCalls ==
    {[fn |-> "pluginParams", text |-> "remind me to buy milk", active |-> {},
      now |-> 0, action |-> a, params |-> ps, supabase |-> c] :
        a \in {"note_create", "note_delete", "reminder_create", "search", "list_show"},
        ps \in AIParams, c \in {"null", "client"}}

\* the calls of getNextWeekday
WeekdayCalls ==
    {[fn |-> "getNextWeekday", text |-> "", active |-> {}, now |-> n,
      targetDay |-> d] : n \in WeekNows, d \in 0..6}

KeywordTexts ==
    { "note to schedule a meeting", "remind me to email Bob",
      "what's on my calendar today", "What's on my calendar today?",
      "add milk to my shopping list",
      "text Mom hello there", "find John's number", "record a note",
      "show my tasks", "is it raining?", "hello" }

KeywordActive == {PluginKeys \ off : off \in SUBSET {"notes", "search", "reminders"}}

\* the calls of extractReminderContent
ExtractCalls ==
    {[fn |-> "extractReminderContent", text |-> c[1], matched |-> c[2],
      active |-> {}, now |-> 0] :
        c \in { <<"remind me to call John in 30 minutes", Some("in 30 minutes")>>,
                <<"Remind me to call John in 30 minutes", Some("in 30 minutes")>>,
                <<"remind me to call John in 30 minutes", Null>>,
                <<"to call mom tomorrow", Some("tomorrow")>>,
                <<"meet Bob on friday", Some(" friday")>>,
                <<"call mom tomorrow at 3pm", Some("tomorrow at at 3pm")>>,
                <<"call John", Null>>,
                <<"", Null>> }}

ExtractorTable == [c \in ExtractCalls |-> extractReminderContent(c.text, c.matched)]

\* the calls of formatReminderTime: the distance of the date from now, in
\* minutes
FormatOffsets == {-60, 0, 10, 59, 60, 330, 1440, 2000, 4320, 9990, 10080, 50000}

FormatCalls ==
    {[fn |-> "formatReminderTime", text |-> "", active |-> {}, now |-> n,
      date |-> Some(n + d)] : n \in Nows, d \in FormatOffsets}
    \cup
    {[fn |-> "formatReminderTime", text |-> "", active |-> {}, now |-> n,
      date |-> Null] : n \in Nows}

FormatterTable == [c \in FormatCalls |-> formatReminderTime(c.date, c.now)]

\* the utterances followed along the keyword path, and the stored contacts
ReminderTexts ==
    { "Remind me to call John in 30 minutes", "remind me to call mom tomorrow",
      "remind me" }

MessageTexts == {"text Mom hello there", "text 555-1234 hello there", "text Mom"}

Mom == [name |-> "Mom", nickname |-> "", phone |-> "555-0100"]

ContactStores ==
    { {Mom, [name |-> "John Smith", nickname |-> "Johnny", phone |-> "555-0199"]},
      {[name |-> "John Smith", nickname |-> "Johnny", phone |-> "555-0199"]},
      {[name |-> "Mom", nickname |-> "", phone |-> ""]},
      {Mom, [name |-> "Momoko Sato", nickname |-> "", phone |-> "555-0177"]},
      {[name |-> "Ann Lee", nickname |-> "mom", phone |-> "555-0155"]} }

PathCalls ==
    {[fn |-> "keywordPath", text |-> t, active |-> a, now |-> n, supabase |-> b,
      contacts |-> {}] :
        t \in ReminderTexts, a \in {PluginKeys, PluginKeys \ {"reminders"}},
        n \in Nows, b \in BOOLEAN}
    \cup
    {[fn |-> "keywordPath", text |-> t, active |-> a, now |-> 0, supabase |-> b,
      contacts |-> store] :
        t \in MessageTexts, a \in {PluginKeys, PluginKeys \ {"text"}},
        b \in BOOLEAN, store \in ContactStores}

PathTable == [c \in PathCalls |-> KeywordPath(c)]

FunctionCalls ==
    ExtractCalls \cup FormatCalls \cup PathCalls \cup WeekdayCalls \cup ParamsCalls \cup
    UNION {{[fn |-> "parseTimeExpression", text |-> t, active |-> {}, now |-> n] :
               n \in NowsOf(t)} : t \in ParserInputs}
    \cup
    {[fn |-> "processWithKeywords", text |-> t, active |-> a, now |-> 0] :
        t \in KeywordTexts, a \in KeywordActive}

\* the values of the two functions on these arguments, computed once
ParserTable ==
    [t \in ParserInputs |-> [n \in NowsOf(t) |-> parseTimeExpression(t, n)]]

MatcherTable ==
    [t \in KeywordTexts |-> [a \in KeywordActive |-> processWithKeywords(t, a)]]

FunctionInit ==
    /\ env \in Environments
    /\ env.voiceSupported
    /\ input = ""
    /\ transcript = ""
    /\ isListening = FALSE
    /\ isProcessing = FALSE
    /\ messages = <<>>
    /\ activePlugins = PluginKeys
    /\ showRecorder = FALSE
    /\ timers = <<>>
    /\ procs = [p \in Slots |-> IdleProc]
    /\ accepted = 0
    /\ args \in FunctionCalls
    /\ returned = <<>>
    /\ recorder = IdleRecorder

ParseTime ==
    /\ args.fn = "parseTimeExpression"
    /\ returned = <<>>
    /\ returned' = <<ParserTable[args.text][args.now]>>
    /\ UNCHANGED << recorder, args, env, input, transcript, isListening, isProcessing,
                    messages, activePlugins, showRecorder, timers, procs, accepted >>

MatchKeywords ==
    /\ args.fn = "processWithKeywords"
    /\ returned = <<>>
    /\ returned' = <<MatcherTable[args.text][args.active]>>
    /\ UNCHANGED << recorder, args, env, input, transcript, isListening, isProcessing,
                    messages, activePlugins, showRecorder, timers, procs, accepted >>

ExtractContent ==
    /\ args.fn = "extractReminderContent"
    /\ returned = <<>>
    /\ returned' = <<ExtractorTable[args]>>
    /\ UNCHANGED << recorder, args, env, input, transcript, isListening, isProcessing,
                    messages, activePlugins, showRecorder, timers, procs, accepted >>

FormatTime ==
    /\ args.fn = "formatReminderTime"
    /\ returned = <<>>
    /\ returned' = <<FormatterTable[args]>>
    /\ UNCHANGED << recorder, args, env, input, transcript, isListening, isProcessing,
                    messages, activePlugins, showRecorder, timers, procs, accepted >>

NextWeekday ==
    /\ args.fn = "getNextWeekday"
    /\ returned = <<>>
    /\ returned' = <<getNextWeekday(args.targetDay, args.now)>>
    /\ UNCHANGED << recorder, args, env, input, transcript, isListening, isProcessing,
                    messages, activePlugins, showRecorder, timers, procs, accepted >>

BuildParams ==
    /\ args.fn = "pluginParams"
    /\ returned = <<>>
    /\ returned' = <<pluginParams(args.action, args.params, args.supabase, args.text)>>
    /\ UNCHANGED << recorder, args, env, input, transcript, isListening, isProcessing,
                    messages, activePlugins, showRecorder, timers, procs, accepted >>

FollowKeywordPath ==
    /\ args.fn = "keywordPath"
    /\ returned = <<>>
    /\ \E outcome \in PathTable[args] : returned' = <<outcome>>
    /\ UNCHANGED << recorder, args, env, input, transcript, isListening, isProcessing,
                    messages, activePlugins, showRecorder, timers, procs, accepted >>

FunctionNext ==
    \/ ParseTime
    \/ MatchKeywords
    \/ ExtractContent
    \/ FormatTime
    \/ NextWeekday
    \/ BuildParams
    \/ FollowKeywordPath

FunctionSpec == FunctionInit /\ [][FunctionNext]_vars

(***************************************************************************)
(* useMediaRecorder.js: the hook by itself. Its callbacks are rebuilt on   *)
(* every render that changes isRecording or isPaused, so each call sees    *)
(* the current state.                                                      *)
(***************************************************************************)
ComponentVars ==
    << env, input, transcript, isListening, isProcessing, messages, activePlugins,
       showRecorder, timers, procs, accepted, args, returned >>

RecorderInit ==
    /\ env \in Environments
    /\ env.voiceSupported
    /\ input = ""
    /\ transcript = ""
    /\ isListening = FALSE
    /\ isProcessing = FALSE
    /\ messages = <<>>
    /\ activePlugins = PluginKeys
    /\ showRecorder = FALSE
    /\ timers = <<>>
    /\ procs = [p \in Slots |-> IdleProc]
    /\ accepted = 0
    /\ args = NoArgs
    /\ returned = <<>>
    /\ \E supported \in BOOLEAN :
          recorder = [IdleRecorder EXCEPT !.isSupported = supported]

\* startRecording up to await getUserMedia: lines 44-66
startRecording ==
    /\ recorder.starts < MaxStarts
    /\ recorder' =
          IF ~recorder.isSupported
          THEN [recorder EXCEPT !.error = "unsupported", !.starts = @ + 1]
          ELSE [recorder EXCEPT !.error = "null", !.hasAudio = FALSE,
                                !.pending = @ + 1, !.starts = @ + 1]
    /\ UNCHANGED ComponentVars

\* getUserMedia ends: lines 67-117. The new MediaRecorder replaces the one
\* in mediaRecorderRef and the new interval the one in timerRef, neither of
\* which is stopped or cleared first
GetUserMediaReturn ==
    /\ recorder.pending > 0
    /\ \E granted \in BOOLEAN :
          recorder' =
              IF granted
              THEN [recorder EXCEPT !.pending = @ - 1,
                                    !.mediaRecorder = "recording",
                                    !.isRecording = TRUE,
                                    !.isPaused = FALSE,
                                    !.intervals = @ + 1,
                                    !.timerRef = TRUE]
              ELSE [recorder EXCEPT !.pending = @ - 1, !.error = "start"]
    /\ UNCHANGED ComponentVars

\* lines 121-132; stop() fires onstop, which sets the audio (82-91)
stopRecording ==
    /\ recorder.mediaRecorder # "null"
    /\ recorder.isRecording
    /\ recorder' = [recorder EXCEPT !.mediaRecorder = "inactive",
                                    !.hasAudio = TRUE,
                                    !.isRecording = FALSE,
                                    !.isPaused = FALSE,
                                    !.intervals = IF recorder.timerRef THEN @ - 1 ELSE @,
                                    !.timerRef = FALSE]
    /\ UNCHANGED ComponentVars

\* lines 135-141
pauseRecording ==
    /\ recorder.mediaRecorder # "null"
    /\ recorder.isRecording
    /\ ~recorder.isPaused
    /\ recorder' = [recorder EXCEPT !.mediaRecorder = "paused", !.isPaused = TRUE]
    /\ UNCHANGED ComponentVars

\* lines 144-150
resumeRecording ==
    /\ recorder.mediaRecorder # "null"
    /\ recorder.isRecording
    /\ recorder.isPaused
    /\ recorder' = [recorder EXCEPT !.mediaRecorder = "recording", !.isPaused = FALSE]
    /\ UNCHANGED ComponentVars

\* the error event of the recorder in use: onerror (lines 94-97), then the
\* browser stops the recorder and fires onstop (82-91)
onerror ==
    /\ recorder.mediaRecorder \in {"recording", "paused"}
    /\ recorder' = [recorder EXCEPT !.error = "recording",
                                    !.isRecording = FALSE,
                                    !.mediaRecorder = "inactive",
                                    !.hasAudio = TRUE]
    /\ UNCHANGED ComponentVars

\* lines 153-161
clearRecording ==
    /\ recorder.hasAudio
    /\ recorder' = [recorder EXCEPT !.hasAudio = FALSE]
    /\ UNCHANGED ComponentVars

RecorderNext ==
    \/ startRecording
    \/ GetUserMediaReturn
    \/ stopRecording
    \/ pauseRecording
    \/ resumeRecording
    \/ onerror
    \/ clearRecording

RecorderSpec == RecorderInit /\ [][RecorderNext]_vars

(***************************************************************************)
(* Properties of processInput.                                             *)
(***************************************************************************)
\* the executions that have passed the choice between the two paths
Decided == {p \in Slots : procs[p].pc \in {"map", "exec_ai", "exec_kw", "respond",
                                            "catch", "finally"}}

\* C1: for every accepted utterance the AI path is attempted first and the
\* keyword matcher runs if and only if the AI path returned null: the matcher
\* never runs before the AI path has returned nor after it returned a result,
\* and no utterance has plugin calls from both paths.
C1_KeywordsIffAINull ==
    \A p \in Slots :
        /\ procs[p].kw => procs[p].ai.state = "null"
        /\ p \in Decided => (procs[p].kw <=> procs[p].ai.state = "null")
        /\ procs[p].pc = "kw" => procs[p].ai.state = "null"
        /\ \A i, j \in 1..Len(procs[p].execs) :
              procs[p].execs[i].path = procs[p].execs[j].path
        /\ procs[p].ai.state = "result" =>
              \A i \in 1..Len(procs[p].execs) : procs[p].execs[i].path = "ai"

\* an utterance whose provider call failed is answered by the keyword matcher,
\* which has called a plugin
C1_Witness ==
    \E p \in Slots :
        /\ procs[p].pc = "respond"
        /\ procs[p].requests = 1
        /\ procs[p].ai.state = "null"
        /\ procs[p].kw
        /\ procs[p].execs # <<>>

\* the executions whose provider call has returned
Returned(p) == procs[p].provider # <<>>

C5_UnmappedActionIsConversation ==
    \A p \in Slots :
        /\ procs[p].ai.state = "result"
        /\ ~Mapped(procs[p].ai.action)
        /\ procs[p].pc \in {"respond", "catch", "finally"}
        => /\ procs[p].execs = <<>>
           /\ procs[p].outcome = "none"
           /\ procs[p].response.message = procs[p].ai.message
           /\ procs[p].response.action = procs[p].ai.action
           /\ procs[p].thrown # "execute"
           /\ procs[p].pc = "respond" =>
                 procs[p].response.message # "apology"

\* the provider named an action that is not in the action map
C5_Witness ==
    \E p \in Slots :
        /\ procs[p].pc = "respond"
        /\ procs[p].ai.action = "fly_to_moon"
        /\ procs[p].response.message = "ai"
        /\ procs[p].execs = <<>>

\* C4: when a plugin's execute throws, the dispatch step itself catches the
\* exception and returns a result carrying a failure message, on the AI path
\* and on the keyword path alike: the exception does not leave the dispatch
\* step, and the response is not the AI's own message.
C4_ThrowGivesFailureMessage ==
    \A p \in Slots :
        procs[p].outcome = "throw"
            => /\ procs[p].thrown # "execute"
               /\ procs[p].pc \in {"respond", "finally"}
               /\ procs[p].response.message = "failure"

\* C6: at most one utterance is in flight at any time.
C6_AtMostOneInFlight == Cardinality(InFlight) <= 1

\* C7: after any accepted utterance, whatever its outcome, isProcessing
\* eventually returns to false (the awaited calls returning), and once no
\* utterance is in flight the form accepts the next utterance.
C7_ProcessingEnds ==
    /\ isProcessing ~> ~isProcessing
    /\ \A p \in Slots : (procs[p].pc # "idle") ~> (procs[p].pc = "idle")
    /\ [](/\ ~isProcessing
          /\ InFlight = {}
          /\ input \notin BlankTexts
          /\ Len(timers) + accepted < MaxUtterances
          => ENABLED handleSubmit)

\* an utterance whose plugin threw was answered with the apology, and the
\* next utterance has been accepted and answered from its plugin's result
C7_Witness ==
    /\ accepted = 2
    /\ InFlight = {}
    /\ ~isProcessing
    /\ Len(messages) = 4
    /\ messages[2].content = "apology"
    /\ messages[3].role = "user"
    /\ messages[4].content = "plugin"

(***************************************************************************)
(* Properties of the keyword matcher and of the time parser.               *)
(***************************************************************************)
\* the registry positions of the active plugins that have a keyword in the
\* lower-cased text of the call
KeywordOwners ==
    {k \in 1..Len(plugins) :
        /\ plugins[k] \in args.active
        /\ \E w \in keywords(plugins[k]) : Includes(toLowerCase(args.text), w)}

KeywordsReturned == args.fn = "processWithKeywords" /\ returned # <<>>

\* C8: when the lower-cased utterance contains keywords of two or more
\* active plugins, the one declared first in the registry handles it: the
\* handling plugin is one of them and none of them is declared before it.
C8_EarliestDeclaredPluginWins ==
    KeywordsReturned /\ Cardinality(KeywordOwners) >= 2
        => /\ \E k \in KeywordOwners : plugins[k] = returned[1].plugin
           /\ \A k \in KeywordOwners :
                 \A h \in 1..Len(plugins) :
                    plugins[h] = returned[1].plugin => h <= k

\* 'note to schedule a meeting' has keywords of notes and of calendar, both
\* active, and the call of notes was chosen
C8_Witness ==
    /\ KeywordsReturned
    /\ {"notes", "calendar"} \subseteq {plugins[k] : k \in KeywordOwners}
    /\ returned[1].plugin = "notes"
    /\ returned[1].exec

ParserReturned == args.fn = "parseTimeExpression" /\ returned # <<>>

\* C9: the value returned by parseTimeExpression has date and matched both
\* null or both non-null.
C9_DateAndMatchedTogether ==
    ParserReturned => (returned[1].date = Null <=> returned[1].matched = Null)

\* both cases have been returned: this one is a text with a time expression
C9_Witness ==
    /\ ParserReturned
    /\ args.text = "report by EOD"
    /\ returned[1].date # Null
    /\ returned[1].matched = Some("end of day")

\* C10: whenever parseTimeExpression(text) returns a non-null matched text,
\* that text is a substring of text, compared case-insensitively.
C10_MatchedIsSubstring ==
    ParserReturned /\ returned[1].matched # Null
        => Includes(toLowerCase(args.text), toLowerCase(returned[1].matched[1]))

\* C11: for every text 'in N <unit>', with N a non-negative integer and the
\* unit one of minute(s), min(s), hour(s), hr(s), day(s), week(s),
\* parseTimeExpression returns the instant now + N * the unit's duration
\* (a minute, 60 minutes, 24 hours, 7 days).
C11_OffsetIsNowPlusUnits ==
    \A a \in OffsetAmounts : \A u \in OffsetUnits :
        ParserReturned /\ args.text = OffsetText(a, u)
            => returned[1].date = Some(args.now + a.value * u.minutes)

\* 'in 45 hrs' on the Saturday night is resolved to 45 hours later, on the
\* Monday evening
C11_Witness ==
    /\ ParserReturned
    /\ args.text = "in 45 hrs"
    /\ args.now = At(6, 23, 30)
    /\ returned[1].date = Some(At(8, 20, 30))

\* a clock time: a number introduced by 'at', with minutes, or with am / pm
ClockTime(s) ==
    \E i \in 1..Len(s) :
        LET m == TimeMatchAt(s, i)
        IN  /\ m.start # 0
            /\ \/ StartsAt(s, i, "at")
               \/ m.period # ""
               \/ Includes(Slice(s, m.start, m.end), ":")

\* whether one of the time expressions the parser recognises occurs in s
HasTimeExpression(s) ==
    \/ InMatch(s).start # 0
    \/ DayWord(s) # 0
    \/ WeekdayMatch(s).start # 0
    \/ Includes(s, "next week") \/ InAWeek(s)
    \/ ClockTime(s)
    \/ Includes(s, "end of day") \/ Includes(s, "eod")
    \/ \E w \in {"this morning", "this afternoon", "this evening"} : Includes(s, w)

\* the texts of the calls in which no time expression occurs (every text
\* 'in N <unit>' is one)
NoExpressionTexts ==
    {t \in ParserInputs \ OffsetTexts : ~HasTimeExpression(toLowerCase(t))}

\* C12: parseTimeExpression returns {date: null, matched: null} for every
\* text in which no recognizable time expression occurs, a text that merely
\* contains a number included; it never guesses an instant for such a text.
C12_NoExpressionGivesNull ==
    ParserReturned /\ args.text \in NoExpressionTexts
        => returned[1] = [date |-> Null, matched |-> Null]

\* the number of calendar days from the day of now to the day of date
DaysAhead(date, now) == (date \div (24 * 60)) - (now \div (24 * 60))

\* C13: for every current day of the week and time, 'next <weekday>' gives
\* an instant whose calendar date is more than 0 and at most 13 days after
\* today and whose day of the week is the named one.
C13_NextWeekdayWithin13Days ==
    \A w \in NextWeekdays :
        ParserReturned /\ args.text = w.text
            => /\ returned[1].date # Null
               /\ DaysAhead(returned[1].date[1], args.now) \in 1..13
               /\ getDay(returned[1].date[1]) = w.day

\* 'next Friday' said on a Friday is the Friday a week later, and 'next
\* saturday' said on a Sunday is 13 days ahead
C13_Witness ==
    /\ ParserReturned
    /\ \/ /\ args.text = "next Friday"
          /\ getDay(args.now) = 5
          /\ DaysAhead(returned[1].date[1], args.now) = 7
       \/ /\ args.text = "next saturday"
          /\ getDay(args.now) = 0
          /\ DaysAhead(returned[1].date[1], args.now) = 13

\* C14: 'tomorrow at 3pm' gives hour 15, minute 0, on the calendar date of
\* now + 1 day, for every now; and for a day word followed by 'at H(am|pm)'
\* the clock time is applied to the day the day word is resolved to: the
\* day that the day word by itself gives, which for today, tonight and
\* tomorrow is now + 0, 0 and 1 days.
C14_ClockTimeOnResolvedDay ==
    \A k \in 1..Len(dayWords) : \A c \in Clocks :
        ParserReturned /\ args.text = DayTimeText(dayWords[k].word, c)
            => /\ returned[1].date # Null
               /\ returned[1].date[1] % (24 * 60) = c.hours * 60
               /\ DaysAhead(returned[1].date[1], args.now)
                     = DaysAhead(ParserTable[dayWords[k].word][args.now].date[1],
                                 args.now)
               /\ k <= 3 => DaysAhead(returned[1].date[1], args.now)
                               = dayWords[k].daysAhead

\* 'tomorrow at 3pm' said on the Saturday at 23:30 is the Sunday at 15:00
C14_Witness ==
    /\ ParserReturned
    /\ args.text = "tomorrow at 3pm"
    /\ args.now = At(6, 23, 30)
    /\ returned[1].date = Some(At(7, 15, 0))

ExtractReturned == args.fn = "extractReminderContent" /\ returned # <<>>

\* C15 (as stated): extractReminderContent('remind me to call John in 30
\* minutes', 'in 30 minutes') returns 'call John', the extractor removing
\* both the matched time phrase and the leading 'remind me to'; when matched
\* is null the full text is returned unchanged.
C15_ExtractGivesCallJohn ==
    ExtractReturned
        => /\ args.matched = Null => returned[1] = args.text
           /\ /\ args.text = "remind me to call John in 30 minutes"
              /\ args.matched = Some("in 30 minutes")
              => returned[1] = "call John"

\* C15 (amended): extractReminderContent('remind me to call John in 30
\* minutes', 'in 30 minutes') returns 'remind me to call John': the extractor
\* removes the matched time phrase, a leading to / about / that / for and a
\* trailing at / on / in / by / before / after, and nothing else; it leaves
\* 'remind me to' in place.  When matched is null the full text is returned
\* unchanged.
C15_ExtractKeepsRemindMeTo ==
    ExtractReturned
        => /\ args.matched = Null => returned[1] = args.text
           /\ /\ toLowerCase(args.text) = "remind me to call john in 30 minutes"
              /\ args.matched = Some("in 30 minutes")
              => toLowerCase(returned[1]) = "remind me to call john"
           /\ args.text = "to call mom tomorrow" => returned[1] = "call mom"
           /\ args.text = "meet Bob on friday" => returned[1] = "meet Bob"

\* the call of the claim has returned, with 'remind me to' still in front
C15_Witness ==
    /\ ExtractReturned
    /\ args.text = "remind me to call John in 30 minutes"
    /\ args.matched = Some("in 30 minutes")
    /\ returned[1] = "remind me to call John"

FormatReturned ==
    args.fn = "formatReminderTime" /\ returned # <<>> /\ args.date # Null

\* the text the buckets of C20 give, chosen from the distance of the date to
\* now: less than 60 minutes away, else the same calendar day, else the next
\* calendar day, else less than 7 days away, else further
ClaimedFormat(date, now) ==
    IF date = Null THEN ""
    ELSE LET d == date[1]
         IN  IF d >= now /\ d - now < 60 THEN "in " \o IntToStr(d - now) \o " minutes"
             ELSE IF SameDay(d, now) THEN "today at " \o TimeStr(d)
             ELSE IF SameDay(d, addDays(now, 1)) THEN "tomorrow at " \o TimeStr(d)
             ELSE IF d >= now /\ d - now < 7 * 24 * 60
             THEN LongWeekdays[getDay(d) + 1] \o " at " \o TimeStr(d)
             ELSE LongDateStr(d)

\* C20: formatReminderTime chooses its output from the instant's distance to
\* now: less than 60 minutes away gives 'in N minutes', N the number of
\* minutes away; otherwise the same calendar day gives 'today at ..', the
\* next calendar day 'tomorrow at ..', less than 7 days '<Weekday> at ..',
\* and anything further the long date form.
C20_BucketByDistance ==
    FormatReturned => returned[1] = ClaimedFormat(args.date, args.now)

(***************************************************************************)
(* Properties of the keyword path of one utterance.                        *)
(***************************************************************************)
PathReturned == args.fn = "keywordPath" /\ returned # <<>>

\* C16: with no AI provider, 'Remind me to call John in 30 minutes' is
\* handled by the keyword path, dispatched to the reminders plugin's create
\* action, and (the insert succeeding) stores a reminder whose content is
\* exactly 'call John' with remind time 30 minutes after the invocation; the
\* response message contains 'in 30 minutes' and 'call John'.
C16_ReminderEndToEnd ==
    /\ PathReturned
    /\ args.text = "Remind me to call John in 30 minutes"
    /\ "reminders" \in args.active
    => /\ returned[1].call = Call("reminders", "create", "message")
       /\ returned[1].params.rawInput = args.text
       /\ ~returned[1].result.thrown
          => /\ returned[1].result.success
             /\ returned[1].result.stored
                   = Some([content |-> "call John", remind_at |-> args.now + 30,
                           is_completed |-> FALSE])
             /\ Includes(returned[1].message, "in 30 minutes")
             /\ Includes(returned[1].message, "call John")

\* said on the Saturday at 23:30, the reminder is stored for the Sunday at
\* 00:00 and the reply names the time and the content
C16_Witness ==
    /\ PathReturned
    /\ args.text = "Remind me to call John in 30 minutes"
    /\ args.now = At(6, 23, 30)
    /\ returned[1].result.stored
          = Some([content |-> "call John", remind_at |-> At(7, 0, 0),
                  is_completed |-> FALSE])
    /\ returned[1].message = "Reminder set for in 30 minutes: \"call John\""

\* C17: on the keyword path 'text Mom hello there' is dispatched to the text
\* plugin with action 'send', contactName 'Mom' and body 'hello there', not
\* to the send-by-number branch nor to an earlier plugin; and with a stored
\* contact 'Mom' that has a phone number the text plugin resolves the name
\* to that number before sending: it does not ask whom to text, and a
\* message it sends goes to that number.
C17_TextMomResolvedAndSent ==
    /\ PathReturned
    /\ args.text = "text Mom hello there"
    /\ args.active = PluginKeys
    => /\ returned[1].call = Call("text", "send", "message")
       /\ returned[1].params
             = [action |-> "send", to |-> "", contactName |-> "Mom",
                body |-> "hello there"]
       /\ Mom \in args.contacts
          => /\ returned[1].message # "Who would you like to text?"
             /\ returned[1].result.sms # Null
                   => returned[1].result.sms[1].to = Mom.phone

(***************************************************************************)
(* Properties of the replies of processInput.                              *)
(***************************************************************************)
\* an execution whose plugin call, dispatched from an AI result, has returned
\* and whose reply is about to be shown
AIPluginReplied(p) ==
    /\ procs[p].pc = "respond"
    /\ ~procs[p].kw
    /\ procs[p].outcome \in {"success", "failure"}

\* C18: for every listing action dispatched from an AI result (note_list,
\* task_list, reminder_list, list_show) whose plugin result carries a
\* non-empty array, the returned message is the bulleted list of the entries;
\* for every non-listing action it is the plugin's own message.
C18_ListingsBulletedOthersPassThrough ==
    \A p \in Slots :
        AIPluginReplied(p)
        => /\ ListShaped(procs[p].call) /\ procs[p].result.list = "some"
              => procs[p].response.message = "list"
           /\ ~ListShaped(procs[p].call)
              => procs[p].response.message = "plugin"

\* C19: every assistant chat message has a content that is a defined,
\* displayable string, on every path.
C19_AssistantContentDefined ==
    \A i \in 1..Len(messages) :
        messages[i].role = "assistant" => messages[i].content # "undefined"

(***************************************************************************)
(* Properties of the documented commands.                                  *)
(***************************************************************************)
\* C21: on the keyword path with all plugins active, the documented command
\* "What's on my calendar today?" is routed to the calendar plugin with
\* action 'today', not to any other plugin.
C21_CalendarTodayRouted ==
    /\ KeywordsReturned
    /\ args.text = "What's on my calendar today?"
    /\ args.active = PluginKeys
    => /\ returned[1].plugin = "calendar"
       /\ returned[1].action = "today"

(***************************************************************************)
(* Properties of the resolution order of parseTimeExpression.              *)
(***************************************************************************)
\* C22: a text that contains a relative offset 'in N <unit>' resolves to
\* now + N units with that phrase as matched, whatever day word, weekday,
\* 'next week' or clock time the text also contains.
C22_OffsetWinsOverLaterRules ==
    \A m \in MixedOffsets :
        ParserReturned /\ args.text = m.text
            => returned[1] = [date |-> Some(args.now + m.minutes),
                              matched |-> Some(m.phrase)]

\* 'call mom tomorrow at 3pm in 2 hours' said on the Wednesday at 10:30 is
\* resolved to the Wednesday at 12:30, not to the Thursday at 15:00
C22_Witness ==
    /\ ParserReturned
    /\ args.text = "call mom tomorrow at 3pm in 2 hours"
    /\ args.now = At(3, 10, 30)
    /\ returned[1] = [date |-> Some(At(3, 12, 30)), matched |-> Some("in 2 hours")]

\* whether date is the next occurrence of the weekday day strictly after the
\* day of now
NextOccurrence(date, day, now) ==
    /\ getDay(date) = day
    /\ DaysAhead(date, now) \in 1..7
    /\ getDay(now) = day => DaysAhead(date, now) = 7
    /\ date > now

\* C23: for a weekday name without 'next' (plain or after 'this'), both
\* parseTimeExpression and getNextWeekday resolve to the next occurrence of
\* that weekday strictly after today: 1 to 7 days ahead (7 when the named
\* weekday is today), on the named weekday, never today and never past.
C23_PlainWeekdayIsNextOccurrence ==
    /\ \A w \in PlainWeekdays :
          ParserReturned /\ args.text = w.text
              => /\ returned[1].date # Null
                 /\ NextOccurrence(returned[1].date[1], w.day, args.now)
    /\ args.fn = "getNextWeekday" /\ returned # <<>>
          => NextOccurrence(returned[1], args.targetDay, args.now)

\* getNextWeekday(5) called on a Friday gives the Friday a week later
C23_Witness ==
    /\ args.fn = "getNextWeekday"
    /\ returned # <<>>
    /\ args.targetDay = 5
    /\ args.now = At(5, 23, 30)
    /\ returned[1] = At(12, 23, 30)

\* the clock time of date on the day of now
OnDayOf(now, date) == setHours(now, getHours(date), getMinutes(date))

\* C24: a clock time with no day word, weekday or 'next week' gives an
\* instant strictly later than now: a clock time already past or equal to
\* now today is rolled forward by exactly one day, a later one is today's;
\* with a day word no roll-forward is applied.
C24_PastClockTimeRollsOneDay ==
    /\ ParserReturned /\ args.text \in ClockOnlyTexts
          => /\ returned[1].date # Null
             /\ returned[1].date[1] > args.now
             /\ returned[1].date[1]
                   = IF OnDayOf(args.now, returned[1].date[1]) <= args.now
                     THEN addDays(OnDayOf(args.now, returned[1].date[1]), 1)
                     ELSE OnDayOf(args.now, returned[1].date[1])
    /\ \A word \in {"today", "tonight"} : \A c \in Clocks :
          ParserReturned /\ args.text = DayTimeText(word, c)
              => returned[1].date = Some(setHours(args.now, c.hours, 0))

\* 'at 6' said on the Sunday at 18:00 sharp is the Monday at 18:00, and
\* 'at 10:30am' said on the Wednesday at 10:30 is the Thursday at 10:30
C24_Witness ==
    /\ ParserReturned
    /\ \/ /\ args.text = "at 6"
          /\ args.now = At(0, 18, 0)
          /\ returned[1].date = Some(At(1, 18, 0))
       \/ /\ args.text = "at 10:30am"
          /\ args.now = At(3, 10, 30)
          /\ returned[1].date = Some(At(4, 10, 30))

\* the hour of the day the claim gives to a clock hour h
ClaimedHour(h, period) ==
    CASE period = "pm" -> IF h = 12 THEN 12 ELSE h + 12
      [] period = "am" -> IF h = 12 THEN 0 ELSE h
      [] OTHER -> IF h >= 1 /\ h <= 7 THEN h + 12 ELSE h

\* C25: a clock hour h with no am/pm marker is taken as h + 12 when
\* 1 <= h <= 7 and as h when h = 0 or h >= 8; with a marker, 'pm' adds 12
\* unless h = 12 and '12am' is hour 0.
C25_BareHourHeuristic ==
    \A c \in BareHours \cup MarkedHours :
        ParserReturned /\ args.text = c.text
            => /\ returned[1].date # Null
               /\ getHours(returned[1].date[1]) = ClaimedHour(c.hours, c.period)
               /\ getMinutes(returned[1].date[1]) = 0

\* 'at 7' is 19:00 and 'at 8' is 08:00
C25_Witness ==
    /\ ParserReturned
    /\ args.now = At(3, 10, 30)
    /\ \/ args.text = "at 7" /\ returned[1].date = Some(At(3, 19, 0))
       \/ args.text = "at 8" /\ returned[1].date = Some(At(4, 8, 0))

\* C26: for a text with the day phrase 'day after tomorrow' (and no offset,
\* weekday or 'next week'), parseTimeExpression resolves the date to
\* now + 2 days and reports 'day after tomorrow' as the matched day.
C26_DayAfterTomorrowIsTwoDays ==
    ParserReturned /\ args.text = "day after tomorrow"
        => /\ returned[1].date # Null
           /\ DaysAhead(returned[1].date[1], args.now) = 2
           /\ returned[1].matched = Some("day after tomorrow")

(***************************************************************************)
(* Properties of the dispatch to plugins.                                  *)
(***************************************************************************)
\* C27: a plugin that is switched off (its key is not in the activePlugins
\* the call of processInput sees) is never executed, whichever path handles
\* the utterance: the keyword cascade, the question tier or the AI action
\* map.
C27_InactivePluginNeverExecuted ==
    \A p \in Slots :
        \A i \in 1..Len(procs[p].execs) :
            procs[p].execs[i].plugin \in procs[p].active

\* C28: for every AI-resolved intent the params passed to execute carry
\* action equal to the action map's action and supabase equal to the
\* component's persistence client, whatever keys the AI's params contain.
C28_ActionAndClientNotOverridden ==
    args.fn = "pluginParams" /\ returned # <<>>
        => /\ returned[1]["action"] = actionMap[args.action].action
           /\ returned[1]["supabase"] = args.supabase

(***************************************************************************)
(* Properties of the messages of processInput.                             *)
(***************************************************************************)
MessagesOf(role) == {i \in 1..Len(messages) : messages[i].role = role}

\* C29: every call of processInput with a non-blank input appends exactly one
\* user message and then exactly one assistant message, the response or the
\* apology and never both, even when a step after the response is appended
\* throws: there are never more assistant messages than user messages, a
\* user message per accepted utterance, and as many of each once no call is
\* in flight.
C29_OneUserOneAssistantMessage ==
    /\ Cardinality(MessagesOf("user")) = accepted
    /\ Cardinality(MessagesOf("assistant")) <= Cardinality(MessagesOf("user"))
    /\ InFlight = {}
          => Cardinality(MessagesOf("assistant")) = Cardinality(MessagesOf("user"))

(***************************************************************************)
(* Properties of useMediaRecorder.                                         *)
(***************************************************************************)
\* C30: after any sequence of startRecording, pauseRecording,
\* resumeRecording, stopRecording and recorder error events, isPaused is
\* true only while isRecording is true, and the duration timer is running
\* only while isRecording is true.
C30_PausedAndTimerOnlyWhileRecording ==
    /\ recorder.isPaused => recorder.isRecording
    /\ recorder.intervals > 0 => recorder.isRecording
=============================================================================
